---------------------------- MODULE Spec2Model ----------------------------
(***************************************************************************)
(* A model of the reference validation and section splitting code of the   *)
(* PDF citation analyzer: src/citation_analyzer.py, and the validators of  *)
(* its two sibling scripts src/enhanced-pdf-extractor.py and src/app.py.   *)
(*                                                                         *)
(* Time is counted in whole seconds since the script was loaded (the       *)
(* moment RATE_LIMITS is built with last_reset = datetime.now()).          *)
(***************************************************************************)
EXTENDS Integers, Sequences, FiniteSets, TLC

VARIABLES
    program,          \* the script that is running
    RATE_LIMITS,      \* the module-level dict: bucket -> rate_info
    now,              \* the wall clock, datetime.now()
    ret,              \* return value of the last check_rate_limit call
    calls,            \* history: calls of check_rate_limit per bucket since its last_reset
    pc,               \* where the reference loop stands: "idle", "picked", "done"
    ref,              \* the reference the loop is at
    results,          \* the dict validate_reference(ref) returned
    trace,            \* history: limiter calls and requests of the last validation
    thread,           \* per thread: where it stands inside check_rate_limit, and its locals
    granted,          \* history: calls that returned True per bucket since its last_reset
    text,             \* the text extracted from the uploaded PDF, as its lines
    body_text,        \* first value split_body_and_references(text) returned
    references_text,  \* second value it returned
    split_pc,         \* "idle", "extracted" (text set), "split" (the function returned)
    references,       \* extract_references_multiline: the list the loop builds
    filtered_references, \* the list it returns
    segment_pc,       \* "idle", "read" (references_text set), "extracted" (it returned)
    reference,        \* detect_citation_style: the reference it is called with
    confidence,       \* the confidence its loop computed for each style
    best_match,       \* the pair (style_name, confidence) it returns
    classify_pc,      \* "idle", "given" (reference set), "detected" (it returned),
                      \* "formatted"
    confidence_text,  \* the label format_style_confidence gave the result
    matches,          \* extract_reference_components: what its searches find in the reference
    style_given,      \* the style it is called with
    components,       \* the dict it returns, without any key if it raised
    raised,           \* the exception it raised, "no" if it returned
    extract_pc,       \* "idle", "called", "returned" (or raised), "validated"
    validation,       \* the dict validate_citation_format returned
    analysis,         \* the dict the last call of perform_reanalysis returned
    first_analysis,   \* history: the dict its first call on the content returned
    analyze_pc,       \* "idle", "edited", "analyzed", "reset", "reanalyzed"
    run_references,   \* the list references of one run of the script
    run_pc,           \* "idle", "display" (the tab's loop), "report" (the report's loop), "done"
    run_i,            \* the position of the running loop in run_references
    displayed,        \* the validation_result the tab's loop got for each reference
    reported,         \* the validation_result the report's loop got for each reference
    validations,      \* history: calls of validate_reference per reference in this run
    requests_sent,    \* history: per domain, the requests sent to it in the interval of
                      \* reset_interval seconds that starts at requests_sent[domain].start
    grants,           \* history: per domain, the calls check_rate_limit(domain) that
                      \* returned True since the last_reset of the domain's bucket
    uploaded_file,    \* the file in the uploader: its name and the text of its pages
    session_state,    \* st.session_state: uploaded_file_name, current_content,
                      \* analysis_results, text_area_key
    edits             \* history: the contents submitted with "Re-analyze Citations"
                      \* since the file in the uploader was put there

vars == <<program, RATE_LIMITS, now, ret, calls, pc, ref, results, trace,
          thread, granted, text, body_text, references_text, split_pc,
          references, filtered_references, segment_pc,
          reference, confidence, best_match, classify_pc, confidence_text,
          matches, style_given, components, raised, extract_pc, validation,
          analysis, first_analysis, analyze_pc,
          run_references, run_pc, run_i, displayed, reported, validations,
          requests_sent, grants, uploaded_file, session_state, edits>>

limiter_vars == <<RATE_LIMITS, ret, calls>>
validation_vars == <<pc, ref, results, trace>>
thread_vars == <<thread, granted>>
split_vars == <<text, body_text, references_text, split_pc>>
segment_vars == <<references, filtered_references, segment_pc>>
classify_vars == <<reference, confidence, best_match, classify_pc, confidence_text>>
extract_vars == <<matches, style_given, components, raised, extract_pc, validation>>
analyze_vars == <<analysis, first_analysis, analyze_pc>>
run_vars == <<run_references, run_pc, run_i, displayed, reported, validations>>
send_vars == <<requests_sent>>
share_vars == <<grants>>
session_vars == <<uploaded_file, session_state, edits>>

-----------------------------------------------------------------------------
(* Bounds of the model.                                                    *)

\* The clock is not advanced beyond MaxTime seconds after load.
MaxTime == 61

\* Denied calls explored per bucket and window, after max_requests grants.
MaxDenied == 2

\* Identifiers (DOIs, URLs) in one reference.
MaxIds == 2

\* Lines of a text that are chosen freely; the lines around them are prose.
MaxSeg == 4

-----------------------------------------------------------------------------
(* Configuration: RATE_LIMITS.                                             *)

Programs == {"citation_analyzer", "enhanced_pdf_extractor", "app"}

Buckets == {"dl.acm.org", "doi.org", "default"}

\* Domains passed to check_rate_limit: the two with a bucket of their own and
\* two that have none.
Domains == {"dl.acm.org", "doi.org", "example.com", "other.org"}

RATE_LIMITS_init ==
    [b \in Buckets |->
        [requests       |-> 0,
         last_reset     |-> 0,
         max_requests   |-> CASE b = "dl.acm.org" -> 10
                              [] b = "doi.org"    -> 30
                              [] OTHER            -> 50,
         reset_interval |-> 60]]

\* Variant that gives every domain without a bucket the dict of doi.org.
BucketOf_doi_org(domain) == IF domain \in Buckets THEN domain ELSE "doi.org"

\* RATE_LIMITS.get(domain, RATE_LIMITS['default']): the key whose dict is used.
BucketOf(domain) == IF domain \in Buckets THEN domain ELSE "default"

-----------------------------------------------------------------------------
(* check_rate_limit                                                        *)

\* Variant that resets a window on its last second already.
WindowElapsed_inclusive(rate_info, t) ==
    t - rate_info.last_reset >= rate_info.reset_interval

\* (now - rate_info['last_reset']).total_seconds() > rate_info['reset_interval']
WindowElapsed(rate_info, t) ==
    t - rate_info.last_reset > rate_info.reset_interval

\* Variant that lets one call too many through.
OverLimit_off_by_one(rate_info) == rate_info.requests > rate_info.max_requests

\* rate_info['requests'] >= rate_info['max_requests']
OverLimit(rate_info) == rate_info.requests >= rate_info.max_requests

\* The reset of an elapsed window: requests = 0, last_reset = now.
ResetIfElapsed(rate_info, t) ==
    IF WindowElapsed(rate_info, t)
    THEN [rate_info EXCEPT !.requests = 0, !.last_reset = t]
    ELSE rate_info

\* Variant that counts a call before testing the limit, so that a denied call
\* is counted too.
check_rate_limit_counts_denied(rl, t, domain) ==
    LET b == BucketOf(domain)
        rate_info == ResetIfElapsed(rl[b], t)
    IN  [ret |-> ~OverLimit(rate_info),
         rl |-> [rl EXCEPT ![b] = [rate_info EXCEPT !.requests = @ + 1]]]

\* check_rate_limit(domain) called at time t on the dict rl:
\* the value returned and the dict it leaves.
check_rate_limit(rl, t, domain) ==
    LET b         == BucketOf(domain)
        rate_info == ResetIfElapsed(rl[b], t)
    IN  IF OverLimit(rate_info)
        THEN [ret |-> FALSE, rl |-> [rl EXCEPT ![b] = rate_info]]
        ELSE [ret |-> TRUE,
              rl  |-> [rl EXCEPT ![b] = [rate_info EXCEPT !.requests = @ + 1]]]

\* History bookkeeping: a call that resets the window is the first of the new one.
CallsAfter(cs, rl, t, domain) ==
    LET b == BucketOf(domain)
    IN  [cs EXCEPT ![b] = IF WindowElapsed(rl[b], t) THEN 1 ELSE @ + 1]

\* The model follows at most max_requests + MaxDenied calls per bucket and window.
MayCall(rl, t, domain) ==
    LET b == BucketOf(domain)
    IN  \/ WindowElapsed(rl[b], t)
        \/ calls[b] < rl[b].max_requests + MaxDenied

-----------------------------------------------------------------------------
(* References.  A reference is modelled by the identifiers it contains, in  *)
(* the order of the text; each stands for one concrete token:               *)
(*   "doi"       doi:10.1145/1188913.1188915                                *)
(*   "doiurl"    "https://doi.org/10.1145/1188913.1188915"                  *)
(*   "acm_doi"   "https://dl.acm.org/doi/10.1145/123456.123456"             *)
(*   "acm_cit"   "https://dl.acm.org/citation.cfm?id=123456"                *)
(*   "acm_other" "https://dl.acm.org/profile/81100"                         *)
(*   "url_a"     "https://example.com/paper"                                *)
(*   "url_b"     "https://other.org/copy"                                   *)
(* URLs are quoted in the text, so that the URL pattern of                  *)
(* extract_urls_from_text, which runs on over blank-separated words, ends   *)
(* at each of them.                                                         *)

Tokens == {"doi", "doiurl", "acm_doi", "acm_cit", "acm_other", "url_a", "url_b"}

Refs == UNION {[1..n -> Tokens] : n \in 0..MaxIds}

\* The URL pattern (?:https?://|www\.)... of extract_urls_from_text.
IsUrl(tok) == tok # "doi"

\* extract_urls_from_text(ref): the cleaned URLs, in order.
extract_urls_from_text(r) == SelectSeq(r, IsUrl)

\* 'dl.acm.org' in url
ContainsAcmHost(url) == url \in {"acm_doi", "acm_cit", "acm_other"}

\* is_valid_acm_url_format(url): dl.acm.org/doi/(abs/|pdf/|)10.<d>/<d.> or
\* dl.acm.org/citation.cfm?id=<d>
is_valid_acm_url_format(url) == url \in {"acm_doi", "acm_cit"}

\* extract_doi_from_url(url) finds a DOI (10.<dddd>/...) in the URL.
extract_doi_from_url(url) == url \in {"doiurl", "acm_doi"}

\* get_domain(url): urlparse(url).netloc.lower()
get_domain(url) ==
    CASE url \in {"acm_doi", "acm_cit", "acm_other"} -> "dl.acm.org"
      [] url = "doiurl" -> "doi.org"
      [] url = "url_a"  -> "example.com"
      [] OTHER          -> "other.org"

\* citation_analyzer: re.search(r'(?:doi:?\s*|https?://doi\.org/)(10\.\d{4,}/[^\s,]+)', ref)
doi_match_citation_analyzer(r) == \E i \in 1..Len(r) : r[i] \in {"doi", "doiurl"}

\* enhanced-pdf-extractor, app: re.search(r'(?i)doi:?\s*(10\.\d{4,}/[^\s,]+)', ref)
doi_match_extractor(r) == \E i \in 1..Len(r) : r[i] = "doi"

\* citation_analyzer: re.search(r'https?://(?!doi\.org)[^\s<>"\']+', ref)
url_match(r) == \E i \in 1..Len(r) : IsUrl(r[i]) /\ r[i] # "doiurl"

-----------------------------------------------------------------------------
(* The resolver: the answers of the network to the requests of one          *)
(* validation.  A status of 0 stands for a transport error (requests        *)
(* raises).  Every HEAD of the validation gets plan.head, every GET plan.get.*)

HeadStatuses == {0, 200, 403, 404, 405, 406}
GetStatuses == {0, 200, 404}
Plans == [head : HeadStatuses, get : GetStatuses]

\* Variant that also retries a HEAD answered with 404.
RetryStatuses_with_404 == {403, 404, 405, 406}

\* if response.status_code in [403, 405, 406]
RetryStatuses == {403, 405, 406}

Event(op, target, res) == [op |-> op, target |-> target, res |-> res]

-----------------------------------------------------------------------------
(* validate_reference.  The operators thread a record st through the code: *)
(* rl (RATE_LIMITS), cs and ret (the limiter's history), results, trace,    *)
(* and returned (a return statement was executed).                          *)

results_init ==
    [valid |-> FALSE, doi_found |-> FALSE, doi_valid |-> FALSE,
     url_found |-> FALSE, rate_limited |-> FALSE, acm_url |-> FALSE,
     raised |-> FALSE]

\* check_rate_limit called from the validator: r is what it returned.
Limited(st, t, domain, r) ==
    [st EXCEPT !.rl = r.rl,
               !.ret = r.ret,
               !.cs = CallsAfter(st.cs, st.rl, t, domain),
               !.trace = Append(@, Event("allow", domain, IF r.ret THEN 1 ELSE 0))]

Log(st, ev) == [st EXCEPT !.trace = Append(@, ev)]

ResultOf(ok, st) == [res |-> IF ok THEN "True" ELSE "False", st |-> st]

\* validate_doi(doi): GET https://doi.org/<doi>; True on status 200, False on
\* any other and when requests raises.
validate_doi(st, plan) ==
    ResultOf(plan.get = 200, Log(st, Event("GET", "doi.org", plan.get)))

\* validate_url_with_fallback from "try:" on, check_rate_limit having returned
\* True: the HEAD request, and the GET retry.
Fetch(a, domain, plan) ==
    IF plan.head = 0
    THEN ResultOf(FALSE, Log(a, Event("HEAD", domain, plan.head)))
    ELSE IF plan.head \in RetryStatuses
    THEN ResultOf(plan.get = 200,
                  Log(Log(a, Event("HEAD", domain, plan.head)),
                      Event("GET", domain, plan.get)))
    ELSE ResultOf(plan.head = 200, Log(a, Event("HEAD", domain, plan.head)))

\* validate_url_with_fallback from "if not check_rate_limit(domain)" on:
\* a is the state after the call.
FetchIfAllowed(a, domain, plan) ==
    IF ~a.ret THEN [res |-> "None", st |-> a] ELSE Fetch(a, domain, plan)

\* validate_url_with_fallback(url) of enhanced-pdf-extractor and app:
\* res is "True", "False" or "None" (rate limit reached).
validate_url_with_fallback(st, t, url, plan) ==
    IF ContainsAcmHost(url)
    THEN ResultOf(is_valid_acm_url_format(url), st)
    ELSE IF extract_doi_from_url(url)
    THEN validate_doi(st, plan)
    ELSE FetchIfAllowed(
            Limited(st, t, get_domain(url), check_rate_limit(st.rl, t, get_domain(url))),
            get_domain(url), plan)

\* results['url_found'] = True, and results['acm_url'] = True for an ACM URL.
FoundUrl(st, url) ==
    [st EXCEPT !.results.url_found = TRUE,
               !.results.acm_url = @ \/ ContainsAcmHost(url)]

\* What validate_reference does with validation_result.
AfterUrl(v) ==
    CASE v.res = "None" -> [v.st EXCEPT !.results.rate_limited = TRUE]
      [] v.res = "True" -> [v.st EXCEPT !.results.valid = TRUE, !.returned = TRUE]
      [] OTHER          -> v.st

\* The loop "for url in urls" of validate_reference (enhanced-pdf-extractor, app),
\* from the i-th URL on.  app.py never defines is_valid_acm_url_format: the call
\* raises NameError, which nothing catches.
RECURSIVE UrlLoop(_, _, _, _, _, _)
RECURSIVE UrlStep(_, _, _, _, _, _)
UrlStep(prog, s1, t, urls, i, plan) ==
    IF ContainsAcmHost(urls[i]) /\ prog = "app"
    THEN [s1 EXCEPT !.results.raised = TRUE]
    ELSE IF ContainsAcmHost(urls[i]) /\ is_valid_acm_url_format(urls[i])
    THEN [s1 EXCEPT !.results.valid = TRUE, !.returned = TRUE]
    ELSE UrlLoop(prog, AfterUrl(validate_url_with_fallback(s1, t, urls[i], plan)),
                 t, urls, i + 1, plan)

UrlLoop(prog, st, t, urls, i, plan) ==
    IF i > Len(urls) \/ st.returned \/ st.results.raised
    THEN st
    ELSE UrlStep(prog, FoundUrl(st, urls[i]), t, urls, i, plan)

\* validate_reference after the loop: "if not results['valid']", the DOI check.
\* Neither script consults check_rate_limit for it.
DoiOutcome(v) ==
    IF v.res = "True"
    THEN [v.st EXCEPT !.results.valid = TRUE, !.returned = TRUE]
    ELSE v.st

AfterUrls(u, r, plan) ==
    IF u.returned \/ u.results.raised \/ u.results.valid \/ ~doi_match_extractor(r)
    THEN u
    ELSE DoiOutcome(validate_doi([u EXCEPT !.results.doi_found = TRUE], plan))

\* validate_reference(ref) of enhanced-pdf-extractor and app.
validate_reference_extractor(prog, st, t, r, plan) ==
    AfterUrls(UrlLoop(prog, st, t, extract_urls_from_text(r), 1, plan), r, plan)

\* citation_analyzer: "if check_rate_limit('doi.org'):", a being the state
\* after the call.
DoiIfAllowed(a, plan) ==
    IF ~a.ret
    THEN [a EXCEPT !.results.rate_limited = TRUE]
    ELSE IF plan.get = 200
    THEN [validate_doi(a, plan).st EXCEPT !.results.doi_valid = TRUE,
                                          !.results.valid = TRUE]
    ELSE validate_doi(a, plan).st

\* citation_analyzer: the DOI part of validate_reference.
DoiPart(st, t, r, plan) ==
    IF ~doi_match_citation_analyzer(r)
    THEN st
    ELSE DoiIfAllowed(
            Limited([st EXCEPT !.results.doi_found = TRUE], t, "doi.org",
                    check_rate_limit(st.rl, t, "doi.org")),
            plan)

\* citation_analyzer: the URL part; a URL is recorded, never requested.
UrlPart(s1, r) ==
    IF url_match(r) THEN [s1 EXCEPT !.results.url_found = TRUE] ELSE s1

\* validate_reference(ref) of citation_analyzer.
validate_reference_citation_analyzer(st, t, r, plan) ==
    UrlPart(DoiPart(st, t, r, plan), r)

\* validate_reference(ref) of the running script.
validate_reference(prog, st, t, r, plan) ==
    IF prog = "citation_analyzer"
    THEN validate_reference_citation_analyzer(st, t, r, plan)
    ELSE validate_reference_extractor(prog, st, t, r, plan)

-----------------------------------------------------------------------------
(* split_body_and_references.  A text is the sequence of its lines,         *)
(* text.split('\n'); a line is one of:                                      *)
(*   "prose"        Results were stable                                     *)
(*   "blank"        (the empty line)                                        *)
(*   "ref"          [1] Knuth                                               *)
(*   "marker"       --- Page 2 ---                                          *)
(*   "header"       References                                              *)
(*   "header_rest"  References [1] Knuth                                    *)
(*   "header_two"   Sources cited in references [1] Knuth                   *)
(* The empty string splits into one empty line, so a string is a sequence   *)
(* of at least one line.                                                    *)

LineKinds ==
    {"prose", "blank", "ref", "marker", "header", "header_rest", "header_two"}

\* '\n'.join(lines): joining no line gives the empty string, as joining one
\* empty line does.
Join(lines) == IF lines = <<>> THEN <<"blank">> ELSE lines

\* page_delim_pattern.match(line.strip())
page_delim_pattern(line) == line = "marker"

contains_reference_header(line) ==
    line \in {"header", "header_rest", "header_two"}

\* The text after the first word of ref_headers, in the order of that list,
\* that occurs anywhere in the line, separators removed; "blank" is ''.  In
\* "header_two" the line starts with "sources" but "references" comes first
\* in the list: what is returned is the text after "references".
extract_content_after_header(line) ==
    IF line \in {"header_rest", "header_two"} THEN "ref" ELSE "blank"

\* Matches of ref_patterns one line adds to the count: the bracketed number
\* a line starts with, or the volume in "vol. 2, no. 4".
ref_pattern_matches(line) ==
    IF line \in {"ref", "entry", "cont", "none"} THEN 1 ELSE 0

RECURSIVE pattern_count(_, _)
pattern_count(lines, n) ==
    IF n = 0 THEN 0
    ELSE pattern_count(lines, n - 1) + ref_pattern_matches(lines[n])

Min(a, b) == IF a < b THEN a ELSE b

\* Variant that is content with two matches.
looks_like_references_section_two(lines_sample) ==
    /\ lines_sample # <<>>
    /\ pattern_count(lines_sample, Min(Len(lines_sample), 10)) >= 2

\* lines_sample[:10] holds at least 3 matches of the reference patterns.
looks_like_references_section(lines_sample) ==
    /\ lines_sample # <<>>
    /\ pattern_count(lines_sample, Min(Len(lines_sample), 10)) >= 3

\* lines[a:b] of Python, a and b being 0-based and within 0..len(lines).
Slice(lines, a, b) == SubSeq(lines, a + 1, b)

\* "while content_lines and not content_lines[0].strip(): pop(0)", and the
\* same at the end.
RECURSIVE pop_leading(_)
pop_leading(content_lines) ==
    IF content_lines # <<>> /\ Head(content_lines) = "blank"
    THEN pop_leading(Tail(content_lines))
    ELSE content_lines

RECURSIVE pop_trailing(_)
pop_trailing(content_lines) ==
    IF content_lines # <<>> /\ content_lines[Len(content_lines)] = "blank"
    THEN pop_trailing(SubSeq(content_lines, 1, Len(content_lines) - 1))
    ELSE content_lines

\* 0-based indices of the page markers, and of the header lines.
page_starts(lines) == {i \in 0..(Len(lines) - 1) : page_delim_pattern(lines[i + 1])}

header_lines(lines) == {i \in 0..(Len(lines) - 1) : contains_reference_header(lines[i + 1])}

SetMin(S) == CHOOSE x \in S : \A y \in S : x <= y

SetMax(S) == CHOOSE x \in S : \A y \in S : x >= y

\* First pass, the header being line i (0-based): refs_lines.
refs_lines(lines, i, section_end) ==
    (IF extract_content_after_header(lines[i + 1]) = "blank"
     THEN <<>> ELSE <<extract_content_after_header(lines[i + 1])>>)
        \o pop_trailing(pop_leading(Slice(lines, i + 1, section_end)))

\* First pass: the body lines before the header.
body_before(lines, i) ==
    IF i > 0 /\ page_delim_pattern(lines[i])
    THEN Slice(lines, 0, i - 1)
    ELSE Slice(lines, 0, i)

\* First pass, from "if contains_reference_header(line_stripped):" on; later
\* is the set of markers after line i.
first_pass_at(lines, i, later) ==
    IF later # {}
    THEN [body_text |-> Join(body_before(lines, i)
                                \o Slice(lines, SetMin(later), Len(lines))),
          references_text |-> Join(refs_lines(lines, i, SetMin(later)))]
    ELSE [body_text |-> Join(body_before(lines, i)),
          references_text |-> Join(refs_lines(lines, i, Len(lines)))]

first_pass(lines, i) ==
    first_pass_at(lines, i, {j \in page_starts(lines) : j > i})

\* Second pass: the page that starts at marker page_start ends at page_end.
page_end(lines, page_start) ==
    IF {j \in page_starts(lines) : j > page_start} # {}
    THEN SetMin({j \in page_starts(lines) : j > page_start})
    ELSE Len(lines)

\* Variant that does not skip very short pages.
page_accepted_any_length(lines, page_start) ==
    looks_like_references_section(
        Slice(lines, page_start + 1, page_end(lines, page_start)))

\* "if len(page_lines) < 5: continue", then the test of the page.
page_accepted(lines, page_start) ==
    /\ page_end(lines, page_start) - (page_start + 1) >= 5
    /\ looks_like_references_section(
           Slice(lines, page_start + 1, page_end(lines, page_start)))

\* page_starts[-3:]
last_three(S) == {i \in S : Cardinality({j \in S : j > i}) < 3}

second_pass(lines, page_start) ==
    [body_text |-> Join(Slice(lines, 0, page_start)
                           \o Slice(lines, page_end(lines, page_start), Len(lines))),
     references_text |->
         Join(Slice(lines, page_start + 1, page_end(lines, page_start)))]

\* len(lines[-len(lines)//4:]): -n // 4 rounds towards minus infinity.
last_quarter_len(n) == (n + 3) \div 4

third_pass(lines) ==
    [body_text |-> Join(Slice(lines, 0, Len(lines) - last_quarter_len(Len(lines)))),
     references_text |->
         Join(Slice(lines, Len(lines) - last_quarter_len(Len(lines)), Len(lines)))]

split_after_first_pass(lines, accepted) ==
    IF accepted # {}
    THEN second_pass(lines, SetMax(accepted))
    ELSE IF /\ Len(lines) > 50
            /\ looks_like_references_section(
                   Slice(lines, Len(lines) - last_quarter_len(Len(lines)), Len(lines)))
    THEN third_pass(lines)
    ELSE [body_text |-> lines, references_text |-> <<"blank">>]

\* Variant that honours the last header line of the text.
last_header(lines) == SetMax(header_lines(lines))

\* "for i, line in enumerate(lines):" returns at the first line for which
\* contains_reference_header holds.
first_header(lines) == SetMin(header_lines(lines))

split_body_and_references(lines) ==
    IF header_lines(lines) # {}
    THEN first_pass(lines, first_header(lines))
    ELSE split_after_first_pass(lines,
            {ps \in last_three(page_starts(lines)) : page_accepted(lines, ps)})

\* The texts of the model: a segment of freely chosen lines between two runs
\* of prose lines.
Pad(n) == [i \in 1..n |-> "prose"]

PadBefore == {0, 37, 39, 47}

PadAfter == {0, 2, 10}

Segments == UNION {[1..n -> LineKinds] : n \in 0..MaxSeg}

Texts == {Join(Pad(p) \o seg \o Pad(q)) : p \in PadBefore, seg \in Segments, q \in PadAfter}

-----------------------------------------------------------------------------
(* extract_references_multiline.  Its text is a sequence of stripped lines  *)
(* as above, with five more kinds of line:                                  *)
(*   "entry"   [1] Donald Knuth. 1997. The art of programming.              *)
(*   "cont"    vol. 2, no. 4                                                *)
(*   "none"    [2] No references available.                                 *)
(*   "org"     Alzheimer Nederland: Factsheet dementie 2021                 *)
(*   "proc"    In Proceedings of the 5th Symposium                          *)
(* A reference is the sequence of the lines that ' '.join puts together.    *)

\* The texts that are segmented have up to MaxRefLines lines.
MaxRefLines == 4

SegmentKinds == {"blank", "prose", "ref", "entry", "cont", "none", "org", "proc"}

\* len(line.strip())
line_len(line) ==
    CASE line = "blank" -> 0
      [] line = "prose" -> 19
      [] line = "ref" -> 9
      [] line = "entry" -> 47
      [] line = "cont" -> 13
      [] line = "none" -> 28
      [] line = "org" -> 44
      [] line = "proc" -> 35
      [] line = "marker" -> 14
      [] line = "header" -> 10
      [] line = "header_rest" -> 20
      [] line = "header_two" -> 37

\* Variant that knows no bracketed number followed by a skip phrase.
is_reference_start_entries_only(line) == line \in {"ref", "entry"}

\* One of ref_start_patterns matches the line.
is_reference_start(line) == line \in {"ref", "entry", "none"}

\* One of continuation_indicators matches the line.
is_continuation_line(line) == line \in {"cont", "proc"}

\* One of author_patterns matches the line.
author_patterns(line) == line = "org"

\* previous_line.strip().endswith('/') or previous_line.strip().endswith('.')
ends_with_slash_or_period(line) == line \in {"entry", "none"}

\* line_text[0].isupper() and len(line_text) > 10
starts_upper_and_long(line) ==
    line \in {"prose", "org", "proc", "header_rest", "header_two"}

\* previous_line is "no_line" for None; "blank" is the empty string, which
\* is false as None is.
looks_like_new_reference(line, previous_line) ==
    /\ line # "blank"
    /\ \/ is_reference_start(line)
       \/ author_patterns(line)
       \/ /\ previous_line \notin {"no_line", "blank"}
          /\ ends_with_slash_or_period(previous_line)
          /\ starts_upper_and_long(line)

\* "if current_ref: references.append(' '.join(current_ref).strip())"
flush(st) ==
    IF st.current_ref # <<>>
    THEN Append(st.references, st.current_ref)
    ELSE st.references

\* Variant that forgets the reference in progress when the next one starts.
start_reference_dropping(st, line) ==
    [references |-> st.references, current_ref |-> <<line>>, previous_line |-> line]

\* Save the previous reference if it exists, then current_ref = [line].
start_reference(st, line) ==
    [references |-> flush(st), current_ref |-> <<line>>, previous_line |-> line]

\* Variant that asks for a continuation indicator before it asks whether the
\* line looks like a new reference.
accumulate_line_continuation_first(st, line) ==
    IF line = "blank"
    THEN [references |-> flush(st), current_ref |-> <<>>, previous_line |-> line]
    ELSE IF is_reference_start(line)
    THEN start_reference(st, line)
    ELSE IF /\ st.current_ref # <<>>
            /\ \/ is_continuation_line(line)
               \/ ~looks_like_new_reference(line, st.previous_line)
    THEN [references |-> st.references,
          current_ref |-> Append(st.current_ref, line),
          previous_line |-> line]
    ELSE start_reference(st, line)

\* The body of "for line in lines:".
accumulate_line(st, line) ==
    IF line = "blank"
    THEN [references |-> flush(st), current_ref |-> <<>>, previous_line |-> line]
    ELSE IF \/ looks_like_new_reference(line, st.previous_line)
            \/ is_reference_start(line)
    THEN start_reference(st, line)
    ELSE IF /\ st.current_ref # <<>>
            /\ \/ is_continuation_line(line)
               \/ ~looks_like_new_reference(line, st.previous_line)
    THEN [references |-> st.references,
          current_ref |-> Append(st.current_ref, line),
          previous_line |-> line]
    ELSE start_reference(st, line)

RECURSIVE accumulate(_, _)
accumulate(st, lines) ==
    IF lines = <<>>
    THEN flush(st)
    ELSE accumulate(accumulate_line(st, Head(lines)), Tail(lines))

\* len(ref), ref being the lines joined by single spaces.
RECURSIVE ref_len(_)
ref_len(r) ==
    IF r = <<>> THEN 0
    ELSE IF Len(r) = 1 THEN line_len(r[1])
    ELSE line_len(Head(r)) + 1 + ref_len(Tail(r))

\* any(pattern in ref_lower for pattern in skip_patterns)
is_non_reference(r) == \E i \in 1..Len(r) : r[i] = "none"

\* ' ' in ref or ',' in ref
has_space_or_comma(r) == Len(r) > 1 \/ (Len(r) = 1 /\ r[1] # "header")

\* Periods in one line.
periods(line) ==
    CASE line = "entry" -> 3
      [] line = "cont" -> 2
      [] line = "none" -> 1
      [] OTHER -> 0

RECURSIVE ref_periods(_)
ref_periods(r) == IF r = <<>> THEN 0 ELSE periods(Head(r)) + ref_periods(Tail(r))

\* One of ref_indicators is found in the reference: a year, "vol" or a "p"
\* in one of its lines, or two periods anywhere in it.
has_indicator(r) ==
    \/ \E i \in 1..Len(r) : r[i] \in {"entry", "cont", "org", "proc", "marker"}
    \/ ref_periods(r) >= 2

\* The condition under which the filter keeps a reference.
passes_filter(r) ==
    /\ ~is_non_reference(r)
    /\ ref_len(r) > 20
    /\ has_space_or_comma(r)
    /\ has_indicator(r)

no_reference_yet == [references |-> <<>>, current_ref |-> <<>>, previous_line |-> "no_line"]

\* text.split('\n'): the empty string is one empty line.
extract_references_multiline(lines) ==
    SelectSeq(accumulate(no_reference_yet, lines), passes_filter)

ReferenceTexts == UNION {[1..n -> SegmentKinds] : n \in 1..MaxRefLines}

-----------------------------------------------------------------------------
(* detect_citation_style.  A reference is put together from five parts, in  *)
(* this order, each of them one of these strings:                           *)
(*   prefix  "bare" (nothing), "numbered" '[1] ', "footnote" '1. '          *)
(*   author  "none" 'anonymous', "apa" 'Knuth, D.', "mla" 'Knuth, Donald.', *)
(*           "mla_two" 'Knuth, Donald, and Leslie Lamport.',                *)
(*           "ieee" 'D. Knuth', "acm" 'Donald Knuth.', "empty" (nothing)    *)
(*   year    "none", "paren" ' (1997).', "plain" ' 1997.'                   *)
(*   title   "none", "plain" ' The art of programming.',                    *)
(*           "quoted" ', "The art of programming,"'                         *)
(*   tail    "none", "year" ' Addison, 1997.',                              *)
(*           "publisher" ' Reading: Addison, 1997.',                        *)
(*           "proc" ' In Proceedings of the 5th Symposium', "brackets" ' []'*)
(* A confidence is a fraction <<numerator, denominator>>.                   *)

\* The keys of CITATION_STYLES in the order of the dict.
Styles == <<"APA", "MLA", "Chicago", "IEEE", "ACM">>

StyleNames == {Styles[i] : i \in 1..Len(Styles)}

\* len(style.patterns)
patterns_len(style) == IF style = "ACM" THEN 6 ELSE 3

\* The values of style.common_punctuation.
common_punctuation(style) ==
    CASE style = "APA" -> <<".", ".", ",">>
      [] style = "MLA" -> <<".", ".", ",">>
      [] style = "Chicago" -> <<".", ".", ":">>
      [] style = "IEEE" -> <<" ", ",", "\"">>
      [] style = "ACM" -> <<".", " and ", ".", "[]", ", ">>

\* The empty string.
no_reference ==
    [prefix |-> "bare", author |-> "empty", year |-> "none",
     title |-> "none", tail |-> "none"]

PartReferences ==
    [prefix : {"bare", "numbered", "footnote"},
     author : {"none", "apa", "mla", "mla_two", "ieee", "acm"},
     year : {"none", "paren", "plain"},
     title : {"none", "plain", "quoted"},
     tail : {"none", "year", "publisher", "proc", "brackets"}]

References == PartReferences \cup {no_reference}

\* One of style.patterns is found in the reference, case ignored.
pattern_found(style, r) ==
    CASE style = "APA" ->
            r.prefix = "bare" /\ r.author = "apa" /\ r.year = "paren"
      [] style = "MLA" ->
            /\ r.prefix = "bare"
            /\ \/ r.author = "mla_two"
               \/ /\ r.author = "mla"
                  /\ r.year = "none"
                  /\ r.title = "plain"
                  /\ r.tail \in {"year", "publisher"}
      [] style = "Chicago" ->
            /\ r.prefix = "bare"
            /\ r.author = "mla"
            /\ r.year = "none"
            /\ r.title = "plain"
            /\ r.tail = "publisher"
      [] style = "IEEE" ->
            /\ r.prefix = "numbered"
            /\ r.author = "ieee"
            /\ r.year = "none"
            /\ r.title = "quoted"
      [] style = "ACM" ->
            \/ r.tail = "proc"
            \/ /\ r.prefix \in {"bare", "numbered"}
               /\ r.author = "acm"
               /\ r.year = "plain"

\* re.search(style.year_pattern, reference)
year_found(style, r) ==
    CASE style = "APA" -> r.year = "paren"
      [] style \in {"MLA", "IEEE"} -> r.tail \in {"year", "publisher"}
      [] style = "Chicago" -> r.year = "paren" \/ r.tail \in {"year", "publisher"}
      [] style = "ACM" -> r.year = "plain" \/ r.tail \in {"year", "publisher"}

\* re.search(style.author_pattern, reference)
author_found(style, r) ==
    CASE style = "APA" -> r.prefix = "bare" /\ r.author = "apa"
      [] style = "MLA" -> r.prefix = "bare" /\ r.author \in {"mla", "mla_two"}
      [] style = "Chicago" ->
            r.prefix \in {"bare", "footnote"} /\ r.author \in {"mla", "mla_two"}
      [] style = "IEEE" -> r.prefix = "numbered" /\ r.author = "ieee"
      [] style = "ACM" -> r.prefix \in {"bare", "numbered"} /\ r.author = "acm"

\* punct in reference, the reference stripped.
punct_in(punct, r) ==
    CASE punct = "." ->
            \/ r.prefix = "footnote"
            \/ r.author \in {"apa", "mla", "mla_two", "ieee", "acm"}
            \/ r.year # "none"
            \/ r.title = "plain"
            \/ r.tail \in {"year", "publisher"}
      [] punct \in {",", ", "} ->
            \/ r.author \in {"apa", "mla", "mla_two"}
            \/ r.title = "quoted"
            \/ r.tail \in {"year", "publisher"}
      [] punct = ":" -> r.tail = "publisher"
      [] punct = " " ->
            ~ /\ r.prefix = "bare"
              /\ r.author \in {"none", "empty"}
              /\ r.year = "none"
              /\ r.title = "none"
              /\ r.tail = "none"
            /\ r # no_reference
      [] punct = "\"" -> r.title = "quoted"
      [] punct = " and " -> r.author = "mla_two"
      [] punct = "[]" -> r.tail = "brackets"

\* Variant without the three points for year, author and punctuation.
max_score_patterns_only(style) == patterns_len(style)

\* max_score = len(style.patterns) + 3
max_score(style) == patterns_len(style) + 3

Point(b) == IF b THEN 1 ELSE 0

\* punct_matches
punct_matches(style, r) ==
    Cardinality({i \in 1..Len(common_punctuation(style)) :
                     punct_in(common_punctuation(style)[i], r)})

\* score / max_score, with score the points for pattern, year and author
\* plus punct_matches / len(style.common_punctuation), as a fraction.
style_confidence(style, r) ==
    << (Point(pattern_found(style, r)) + Point(year_found(style, r))
          + Point(author_found(style, r))) * Len(common_punctuation(style))
       + punct_matches(style, r),
       Len(common_punctuation(style)) * max_score(style) >>

\* a < b for fractions with positive denominators.
Less(a, b) == a[1] * b[2] < b[1] * a[2]

\* Variant that lets a later style win a tie.
exceeds_or_equals(c, best) == ~Less(c, best)

\* confidence > best_match[1]
exceeds(c, best) == Less(best, c)

\* Variant with the threshold at one half.
below_threshold_half(c) == Less(c, <<1, 2>>)

\* best_match[1] < 0.3
below_threshold(c) == Less(c, <<3, 10>>)

Unknown == [style_name |-> "Unknown", confidence |-> <<0, 1>>]

\* "for style_name, style in CITATION_STYLES.items():" from the i-th style on.
RECURSIVE best_of(_, _, _)
best_of(r, i, best) ==
    IF i > Len(Styles)
    THEN best
    ELSE best_of(r, i + 1,
                 IF exceeds(style_confidence(Styles[i], r), best.confidence)
                 THEN [style_name |-> Styles[i],
                       confidence |-> style_confidence(Styles[i], r)]
                 ELSE best)

detect_citation_style(r) ==
    IF below_threshold(best_of(r, 1, Unknown).confidence)
    THEN Unknown
    ELSE best_of(r, 1, Unknown)

\* Variant that calls a confidence high from 0.6 on.
is_high_from_three_fifths(c) == ~Less(c, <<3, 5>>)

\* confidence >= 0.8
is_high(c) == ~Less(c, <<4, 5>>)

\* The label in the badge of format_style_confidence(style, confidence).
format_style_confidence(style, c) ==
    IF style = "Unknown" THEN "Unknown Style"
    ELSE IF is_high(c) THEN "High confidence"
    ELSE IF ~Less(c, <<1, 2>>) THEN "Medium confidence"
    ELSE "Low confidence"

-----------------------------------------------------------------------------
(* extract_reference_components.  The reference is given by what each of    *)
(* the searches of the function finds in it: "None" when re.search or       *)
(* re.match returns None, else the groups that took part in the match.  A   *)
(* captured group is the string "text", a group that took no part is        *)
(* "None", as m.group(n) is.                                                *)

Fields ==
    {"authors", "year", "title", "source", "volume", "issue", "pages",
     "doi", "url", "publisher", "location"}

\* components = {'authors': '', ..., 'location': ''}
empty_components == [field \in Fields |-> ""]

\* The styles the function is called with: the registered ones, "Unknown"
\* and a name that is not registered.
StylesGiven == StyleNames \cup {"Unknown", "Harvard"}

\* The outcomes of the searches.  doi, url, volume: the one group or None.
\* author, year, title: the searches of the branch of the style.
\* author_year: the ACM search with its optional first group.
\* proceedings: 'In Proceedings of' in reference, then proc_match, else
\* journal_match.  publisher: publisher_match and the test of the text
\* before it.  issue and pages: which of the two alternatives matched.
Matches ==
    [doi : {"None", "doi"},
     url : {"None", "url"},
     author : {"None", "author"},
     year : {"None", "year"},
     title : {"None", "title"},
     author_year : {"None", "year", "authors_year"},
     proceedings : {"absent", "phrase", "proceedings", "journal"},
     publisher : {"None", "publisher", "after_proceedings"},
     volume : {"None", "volume"},
     issue : {"None", "no", "parenthesis"},
     pages : {"None", "pp", "range"}]

no_match ==
    [doi |-> "None", url |-> "None", author |-> "None", year |-> "None",
     title |-> "None", author_year |-> "None", proceedings |-> "absent",
     publisher |-> "None", volume |-> "None", issue |-> "None", pages |-> "None"]

\* m.group(n) of a search with one group, or with groups that all take part.
group(m) == IF m = "None" THEN "None" ELSE "text"

\* author_year_match.group(1)
author_year_group1(m) == IF m = "authors_year" THEN "text" ELSE "None"

\* issue_match.group(1), issue_match.group(2) and the like.
first_group(m) == IF m \in {"no", "pp"} THEN "text" ELSE "None"

second_group(m) == IF m \in {"parenthesis", "range"} THEN "text" ELSE "None"

\* g.strip(): None has no such attribute.
strip(g) == IF g = "None" THEN "AttributeError" ELSE g

\* a or b
or(a, b) == IF a \notin {"None", ""} THEN a ELSE b

\* "if m: components[field] = value", components[field] being '' before.
found(m, value) == IF m # "None" THEN value ELSE ""

\* Variant that strips the first group without asking whether it is there.
acm_authors_unguarded(m) == strip(author_year_group1(m))

\* author_year_match.group(1).strip('.').strip() if author_year_match.group(1) else ''
acm_authors(m) ==
    IF author_year_group1(m) # "None" THEN strip(author_year_group1(m)) ELSE ""

\* Variant with a branch for Chicago that searches authors, year and title.
style_specific_chicago(m, s) ==
    IF s = "Chicago"
    THEN [empty_components EXCEPT
             !["authors"] = found(m.author, strip(group(m.author))),
             !["year"] = found(m.year, group(m.year)),
             !["title"] = found(m.title, strip(group(m.title)))]
    ELSE empty_components

\* if style == 'APA': ... elif 'IEEE' ... elif 'MLA' ... elif 'ACM'
style_specific(m, s) ==
    CASE s \in {"APA", "IEEE", "MLA"} ->
            [empty_components EXCEPT
                !["authors"] = found(m.author, strip(group(m.author))),
                !["year"] = found(m.year, group(m.year)),
                !["title"] = found(m.title, strip(group(m.title)))]
      [] s = "ACM" ->
            [empty_components EXCEPT
                !["authors"] = found(m.author_year, acm_authors(m.author_year)),
                !["year"] = found(m.author_year, "text"),
                !["title"] = IF m.author_year # "None"
                             THEN found(m.title, strip(group(m.title)))
                             ELSE "",
                !["source"] = IF m.proceedings \in {"proceedings", "journal"}
                              THEN strip("text") ELSE "",
                !["volume"] = IF m.proceedings = "journal" THEN "text" ELSE "",
                !["issue"] = IF m.proceedings = "journal" THEN "text" ELSE "",
                !["pages"] = IF m.proceedings = "journal" THEN "text" ELSE "",
                !["publisher"] = IF m.publisher = "publisher" THEN strip("text") ELSE "",
                !["location"] = IF m.publisher = "publisher" THEN strip("text") ELSE ""]
      [] OTHER -> empty_components

\* The DOI and the URL, then the patterns tried for a field that is still
\* empty: "if not components['volume']:" and the two after it.
common_patterns(m, c) ==
    [c EXCEPT
        !["doi"] = found(m.doi, group(m.doi)),
        !["url"] = found(m.url, group(m.url)),
        !["volume"] = IF c["volume"] = "" THEN found(m.volume, group(m.volume))
                      ELSE c["volume"],
        !["issue"] = IF c["issue"] = ""
                     THEN found(m.issue, or(first_group(m.issue), second_group(m.issue)))
                     ELSE c["issue"],
        !["pages"] = IF c["pages"] = ""
                     THEN found(m.pages, or(first_group(m.pages), second_group(m.pages)))
                     ELSE c["pages"]]

\* The dict the function builds; a field holds "AttributeError" where the
\* statement that assigns it raises.
built_components(m, s) == common_patterns(m, style_specific(m, s))

\* The exception that ends the call, "no" if it returns.
exception_of(c) ==
    IF \E field \in Fields : c[field] = "AttributeError"
    THEN "AttributeError" ELSE "no"

\* What the caller holds after a call that raised: no dict.
no_components == [field \in {} |-> ""]

extract_reference_components(m, s) ==
    IF exception_of(built_components(m, s)) = "no"
    THEN built_components(m, s)
    ELSE no_components

\* validate_citation_format: the dict it starts with.
no_validation == [is_valid |-> TRUE, errors |-> <<>>]

\* The fields it tests, in the order of the tests, with the error of each.
basic_validations ==
    << [field |-> "authors", error |-> "Missing author information"],
       [field |-> "year", error |-> "Missing publication year"],
       [field |-> "title", error |-> "Missing title"] >>

\* "if not components[field]:" appends the error of the field.
RECURSIVE missing(_, _)
missing(c, tests) ==
    IF tests = <<>> THEN <<>>
    ELSE (IF c[Head(tests).field] = "" THEN <<Head(tests).error>> ELSE <<>>)
         \o missing(c, Tail(tests))

\* validate_citation_format, components being the dict the extraction
\* returned: CITATION_STYLES.get(style) is None for a name that is no key.
validation_of(c, s) ==
    IF s \notin StyleNames
    THEN [is_valid |-> FALSE, errors |-> <<"Unknown citation style">>]
    ELSE [is_valid |-> missing(c, basic_validations) = <<>>,
          errors |-> missing(c, basic_validations)]

\* validate_citation_format(reference, style); an exception of the
\* extraction ends the call.
validate_citation_format(m, s) ==
    IF exception_of(built_components(m, s)) = "no"
    THEN validation_of(built_components(m, s), s)
    ELSE no_validation

-----------------------------------------------------------------------------
(* perform_reanalysis.  The content is a text of lines as above; a sentence *)
(* of the body is the sequence of the lines and pieces of lines it is made  *)
(* of.  The entry line '[1] Donald Knuth. 1997. The art of programming.'    *)
(* is three sentences: "entry_author", "entry_year" and "entry_title".      *)

\* The contents that are analyzed have up to MaxDocLines lines.
MaxDocLines == 5

AnalyzeKinds == {"prose", "blank", "ref", "marker", "header", "entry"}

\* modified_content is None
NoContent == <<"None">>

Contents == UNION {[1..n -> AnalyzeKinds] : n \in 1..MaxDocLines} \cup {NoContent}

\* re.findall(r'\[(\d+)\]', body_text): the numbers found in one line.
numbered_in(line) == IF line \in {"ref", "entry", "entry_author"} THEN <<"1">> ELSE <<>>

RECURSIVE numbered(_)
numbered(lines) ==
    IF lines = <<>> THEN <<>> ELSE numbered_in(Head(lines)) \o numbered(Tail(lines))

\* extract_in_text_citations(body_text); no line of these texts holds a
\* citation of the form (Author, 2020).
extract_in_text_citations(body) ==
    [numbered |-> numbered(body), author_year |-> <<>>]

\* The pieces sentence_pattern.split makes of one line taken alone.
pieces(line) ==
    IF line = "entry" THEN <<"entry_author", "entry_year", "entry_title">> ELSE <<line>>

RECURSIVE all_pieces(_)
all_pieces(lines) ==
    IF lines = <<>> THEN <<>> ELSE pieces(Head(lines)) \o all_pieces(Tail(lines))

\* The piece ends with a period, and white space follows it if anything does.
ends_sentence(piece) == piece \in {"entry_author", "entry_year", "entry_title"}

\* sentence_pattern.split(body_text): sentences ends with the sentence that is
\* being read, which may be empty.
RECURSIVE split_sentences(_, _)
split_sentences(ps, sentences) ==
    IF ps = <<>>
    THEN sentences
    ELSE split_sentences(
             Tail(ps),
             IF ends_sentence(Head(ps))
             THEN SubSeq(sentences, 1, Len(sentences) - 1)
                      \o << Append(sentences[Len(sentences)], Head(ps)), <<>> >>
             ELSE SubSeq(sentences, 1, Len(sentences) - 1)
                      \o << Append(sentences[Len(sentences)], Head(ps)) >>)

\* sent.strip()
strip_sentence(sent) == pop_trailing(pop_leading(sent))

\* Variant that records every sentence, cited or not.
citation_sentence_always(sent) ==
    << [sentence |-> strip_sentence(sent), citations |-> numbered(sent)] >>

\* "if found: citation_sentences.append(...)"
citation_sentence(sent) ==
    IF numbered(sent) # <<>>
    THEN << [sentence |-> strip_sentence(sent), citations |-> numbered(sent)] >>
    ELSE <<>>

RECURSIVE citation_sentences_of(_)
citation_sentences_of(sentences) ==
    IF sentences = <<>> THEN <<>>
    ELSE citation_sentence(Head(sentences)) \o citation_sentences_of(Tail(sentences))

extract_in_text_citation_sentences(body) ==
    citation_sentences_of(split_sentences(all_pieces(body), << <<>> >>))

\* style_info[0] for a reference given as its lines: the patterns and the
\* author pattern of ACM match a reference that starts with the entry line,
\* and it alone reaches a confidence of 0.3.
style_info_name(r) == IF Head(r) = "entry" THEN "ACM" ELSE "Unknown"

\* Variant that goes on counting where the previous call stopped.
style_counts_kept(previous) == previous

\* style_counts = defaultdict(int), whatever the name was bound to before.
style_counts_new(previous) == [name \in StyleNames \cup {"Unknown"} |-> 0]

\* "for ref in references: style_counts[style_info[0]] += 1"
RECURSIVE count_styles(_, _)
count_styles(refs, counts) ==
    IF refs = <<>>
    THEN counts
    ELSE count_styles(Tail(refs),
                      [counts EXCEPT ![style_info_name(Head(refs))] = @ + 1])

\* What the caller holds before the first call and after a call that raised.
no_analysis ==
    [raised |-> "no",
     body_text |-> <<"blank">>,
     references_text |-> <<"blank">>,
     references |-> <<>>,
     in_text_citations |-> [numbered |-> <<>>, author_year |-> <<>>],
     citation_sentences |-> <<>>,
     style_counts |-> [name \in StyleNames \cup {"Unknown"} |-> 0]]

\* The dict that is returned for a content that is a text.
analysis_of(lines, previous) ==
    [raised |-> "no",
     body_text |-> split_body_and_references(lines).body_text,
     references_text |-> split_body_and_references(lines).references_text,
     references |->
         extract_references_multiline(split_body_and_references(lines).references_text),
     in_text_citations |->
         extract_in_text_citations(split_body_and_references(lines).body_text),
     citation_sentences |->
         extract_in_text_citation_sentences(split_body_and_references(lines).body_text),
     style_counts |->
         count_styles(
             extract_references_multiline(split_body_and_references(lines).references_text),
             style_counts_new(previous.style_counts))]

\* Variant without "if modified_content is None": None has no split.
content_unguarded(modified_content) == modified_content

\* if modified_content is None: modified_content = ""
content(modified_content) ==
    IF modified_content = NoContent THEN <<"blank">> ELSE modified_content

\* previous is the dict of the call before, which the function cannot see.
perform_reanalysis(modified_content, previous) ==
    IF content(modified_content) = NoContent
    THEN [no_analysis EXCEPT !.raised = "AttributeError"]
    ELSE analysis_of(content(modified_content), previous)

-----------------------------------------------------------------------------
(* main: the session of one user.  Streamlit runs main from the top on      *)
(* every upload and every click; st.session_state is what survives a run.   *)
(* A file is its name and the text_content extracted from its pages, page   *)
(* markers included; a file without pages yields the empty text.            *)

\* Clicks on buttons that advance text_area_key.
MaxKey == 2

FileNames == {"paper.pdf", "other.pdf"}

\* '\n--- Page 1 ---\n' followed by the text of the page.
FileTexts ==
    {<<"blank", "marker", "prose", "header", "entry">>,
     <<"blank", "marker", "prose", "ref">>,
     <<"blank">>}

Files == [name : FileNames, text : FileTexts]

\* uploaded_file is None
no_file == [name |-> "None", text |-> <<>>]

\* What the user can leave in the text area.
Edits == {<<"prose", "header", "entry">>, <<"prose">>}

\* st.session_state.analysis_results = None
None_analysis == [no_analysis EXCEPT !.raised = "None"]

\* The session before the first run; text_area_key is -1 while the key is
\* not in the session.
no_session_state ==
    [uploaded_file_name |-> "None", current_content |-> NoContent,
     analysis_results |-> None_analysis, text_area_key |-> -1]

\* not text_content.strip()
is_blank(t) == \A i \in 1..Len(t) : t[i] = "blank"

\* 'uploaded_file_name' not in st.session_state
\*     or st.session_state.uploaded_file_name != uploaded_file.name
name_differs(ss, f) == ss.uploaded_file_name # f.name

\* "Reset session state when a new file is uploaded"
reset_on_upload(ss, f) ==
    IF name_differs(ss, f)
    THEN [ss EXCEPT !.uploaded_file_name = f.name,
                    !.current_content = NoContent,
                    !.analysis_results = None_analysis]
    ELSE ss

\* "Initialize session state for content and analysis results"
initial_content(ss, t) ==
    IF ss.current_content = NoContent THEN [ss EXCEPT !.current_content = t] ELSE ss

\* The dict of the initial analysis, the fallback if it raised.
initial_results(c) ==
    IF perform_reanalysis(c, no_analysis).raised = "no"
    THEN perform_reanalysis(c, no_analysis)
    ELSE [no_analysis EXCEPT !.body_text = c]

\* "Perform initial analysis or use cached results"
initial_analysis(ss) ==
    IF ss.analysis_results = None_analysis
    THEN [ss EXCEPT !.analysis_results = initial_results(ss.current_content)]
    ELSE ss

\* if 'text_area_key' not in st.session_state: text_area_key = 0
initial_key(ss) ==
    IF ss.text_area_key = -1 THEN [ss EXCEPT !.text_area_key = 0] ELSE ss

\* One run of main with f in the uploader and no button clicked: the
\* session it leaves.  The run returns early if no text was extracted.
run_main(ss, f) ==
    IF f = no_file THEN ss
    ELSE IF is_blank(f.text) THEN reset_on_upload(ss, f)
    ELSE initial_key(initial_analysis(initial_content(reset_on_upload(ss, f), f.text)))

\* The button "Re-analyze Citations" with modified_content in the text area.
reanalyze_clicked(ss, modified_content) ==
    [ss EXCEPT !.current_content = modified_content,
               !.analysis_results =
                   IF perform_reanalysis(modified_content, no_analysis).raised = "no"
                   THEN perform_reanalysis(modified_content, no_analysis)
                   ELSE @]

\* The button "Reset to Original".
reset_clicked(ss, text_content) ==
    [ss EXCEPT !.current_content = text_content,
               !.text_area_key = @ + 1,
               !.analysis_results =
                   IF perform_reanalysis(text_content, no_analysis).raised = "no"
                   THEN perform_reanalysis(text_content, no_analysis)
                   ELSE @]

\* The button "Force Refresh".
refresh_clicked(ss) == [ss EXCEPT !.text_area_key = @ + 1]

-----------------------------------------------------------------------------
(* check_rate_limit statement by statement, for callers that run in         *)
(* threads.  The function takes no lock; a thread can be preempted between  *)
(* any two of its statements, and "rate_info['requests'] += 1" is a load    *)
(* followed by a store.                                                     *)

\* A pool of two workers.
Threads == {"t1", "t2"}

\* The domain the workers ask for: every worker validates ACM references.
ThreadDomains == {"dl.acm.org"}

thread_idle == [pc |-> "idle", domain |-> "", now |-> 0, requests |-> 0]

rate_info_of(t) == BucketOf(thread[t].domain)

-----------------------------------------------------------------------------
(* The rate limiter on its own: any calls, for any domains, at any times.   *)

Init ==
    /\ program = "citation_analyzer"
    /\ RATE_LIMITS = RATE_LIMITS_init
    /\ now = 0
    /\ ret = TRUE
    /\ calls = [b \in Buckets |-> 0]
    /\ pc = "idle"
    /\ ref = <<>>
    /\ results = results_init
    /\ trace = <<>>
    /\ thread = [t \in Threads |-> thread_idle]
    /\ granted = [b \in Buckets |-> 0]
    /\ text = <<"blank">>
    /\ body_text = <<"blank">>
    /\ references_text = <<"blank">>
    /\ split_pc = "idle"
    /\ references = <<>>
    /\ filtered_references = <<>>
    /\ segment_pc = "idle"
    /\ reference = no_reference
    /\ confidence = [style \in StyleNames |-> <<0, 1>>]
    /\ best_match = Unknown
    /\ classify_pc = "idle"
    /\ confidence_text = ""
    /\ matches = no_match
    /\ style_given = "Unknown"
    /\ components = empty_components
    /\ raised = "no"
    /\ extract_pc = "idle"
    /\ validation = no_validation
    /\ analysis = no_analysis
    /\ first_analysis = no_analysis
    /\ analyze_pc = "idle"
    /\ run_references = <<>>
    /\ run_pc = "idle"
    /\ run_i = 1
    /\ displayed = <<>>
    /\ reported = <<>>
    /\ validations = <<>>
    /\ requests_sent = [domain \in Domains |-> [start |-> 0, n |-> 0]]
    /\ grants = [domain \in Domains |-> 0]
    /\ uploaded_file = no_file
    /\ session_state = no_session_state
    /\ edits = {}

CheckRateLimit(domain) ==
    /\ MayCall(RATE_LIMITS, now, domain)
    /\ LET r == check_rate_limit(RATE_LIMITS, now, domain)
       IN  /\ RATE_LIMITS' = r.rl
           /\ ret' = r.ret
    /\ calls' = CallsAfter(calls, RATE_LIMITS, now, domain)
    /\ UNCHANGED <<program, now, validation_vars, thread_vars, split_vars, segment_vars, classify_vars, extract_vars, analyze_vars, run_vars, send_vars, share_vars, session_vars>>

\* The clock advances to the last second of the first window or just past it.
Tick ==
    /\ \E dt \in {60, 61} :
          /\ now + dt <= MaxTime
          /\ now' = now + dt
    /\ UNCHANGED <<program, limiter_vars, validation_vars, thread_vars, split_vars, segment_vars, classify_vars, extract_vars, analyze_vars, run_vars, send_vars, share_vars, session_vars>>

Next ==
    \/ \E domain \in Domains : CheckRateLimit(domain)
    \/ Tick

Spec == Init /\ [][Next]_vars

-----------------------------------------------------------------------------
(* The reference loop of a script: "for ref in references:                  *)
(* validate_reference(ref)", for any list of references and any answers of  *)
(* the network.                                                             *)

InitValidate ==
    /\ program \in Programs
    /\ RATE_LIMITS = RATE_LIMITS_init
    /\ now = 0
    /\ ret = TRUE
    /\ calls = [b \in Buckets |-> 0]
    /\ pc = "idle"
    /\ ref = <<>>
    /\ results = results_init
    /\ trace = <<>>
    /\ thread = [t \in Threads |-> thread_idle]
    /\ granted = [b \in Buckets |-> 0]
    /\ text = <<"blank">>
    /\ body_text = <<"blank">>
    /\ references_text = <<"blank">>
    /\ split_pc = "idle"
    /\ references = <<>>
    /\ filtered_references = <<>>
    /\ segment_pc = "idle"
    /\ reference = no_reference
    /\ confidence = [style \in StyleNames |-> <<0, 1>>]
    /\ best_match = Unknown
    /\ classify_pc = "idle"
    /\ confidence_text = ""
    /\ matches = no_match
    /\ style_given = "Unknown"
    /\ components = empty_components
    /\ raised = "no"
    /\ extract_pc = "idle"
    /\ validation = no_validation
    /\ analysis = no_analysis
    /\ first_analysis = no_analysis
    /\ analyze_pc = "idle"
    /\ run_references = <<>>
    /\ run_pc = "idle"
    /\ run_i = 1
    /\ displayed = <<>>
    /\ reported = <<>>
    /\ validations = <<>>
    /\ requests_sent = [domain \in Domains |-> [start |-> 0, n |-> 0]]
    /\ grants = [domain \in Domains |-> 0]
    /\ uploaded_file = no_file
    /\ session_state = no_session_state
    /\ edits = {}

\* "for ref in references:": the loop takes the next reference.
PickRef(r) ==
    /\ pc = "idle"
    /\ pc' = "picked"
    /\ ref' = r
    /\ UNCHANGED <<program, now, limiter_vars, results, trace, thread_vars, split_vars, segment_vars, classify_vars, extract_vars, analyze_vars, run_vars, send_vars, share_vars, session_vars>>

\* The result has been displayed and the loop body ends: the result is dropped.
EndOfLoopBody ==
    /\ pc = "done"
    /\ pc' = "idle"
    /\ ref' = <<>>
    /\ results' = results_init
    /\ trace' = <<>>
    /\ UNCHANGED <<program, now, limiter_vars, thread_vars, split_vars, segment_vars, classify_vars, extract_vars, analyze_vars, run_vars, send_vars, share_vars, session_vars>>

\* validate_reference(ref), with the network answering as in plan.
Returns(st) ==
    /\ \A b \in Buckets : st.cs[b] <= st.rl[b].max_requests + MaxDenied
    /\ RATE_LIMITS' = st.rl
    /\ calls' = st.cs
    /\ ret' = st.ret
    /\ results' = st.results
    /\ trace' = st.trace

ValidateReference(plan) ==
    /\ pc = "picked"
    /\ Returns(validate_reference(program,
                    [rl |-> RATE_LIMITS, cs |-> calls, ret |-> ret,
                     results |-> results_init, trace |-> <<>>, returned |-> FALSE],
                    now, ref, plan))
    /\ pc' = "done"
    /\ UNCHANGED <<program, now, ref, thread_vars, split_vars, segment_vars, classify_vars, extract_vars, analyze_vars, run_vars, send_vars, share_vars, session_vars>>

NextValidate ==
    \/ \E r \in Refs : PickRef(r)
    \/ \E plan \in Plans : ValidateReference(plan)
    \/ EndOfLoopBody
    \/ Tick

SpecValidate == InitValidate /\ [][NextValidate]_vars

-----------------------------------------------------------------------------
(* check_rate_limit called from a pool of threads.                          *)

\* now = datetime.now(); rate_info = RATE_LIMITS.get(domain, RATE_LIMITS['default'])
Call(t, domain) ==
    /\ thread[t].pc = "idle"
    /\ granted[BucketOf(domain)] < RATE_LIMITS[BucketOf(domain)].max_requests + MaxDenied
    /\ thread' = [thread EXCEPT ![t] = [pc |-> "test_reset", domain |-> domain,
                                        now |-> now, requests |-> 0]]
    /\ UNCHANGED <<program, now, limiter_vars, validation_vars, granted, split_vars, segment_vars, classify_vars, extract_vars, analyze_vars, run_vars, send_vars, share_vars, session_vars>>

\* if (now - rate_info['last_reset']).total_seconds() > rate_info['reset_interval']:
TestReset(t) ==
    /\ thread[t].pc = "test_reset"
    /\ thread' = [thread EXCEPT ![t].pc =
                     IF WindowElapsed(RATE_LIMITS[rate_info_of(t)], thread[t].now)
                     THEN "reset_requests" ELSE "test_limit"]
    /\ UNCHANGED <<program, now, limiter_vars, validation_vars, granted, split_vars, segment_vars, classify_vars, extract_vars, analyze_vars, run_vars, send_vars, share_vars, session_vars>>

\* rate_info['requests'] = 0
ResetRequests(t) ==
    /\ thread[t].pc = "reset_requests"
    /\ RATE_LIMITS' = [RATE_LIMITS EXCEPT ![rate_info_of(t)].requests = 0]
    /\ thread' = [thread EXCEPT ![t].pc = "reset_last_reset"]
    /\ UNCHANGED <<program, now, ret, calls, validation_vars, granted, split_vars, segment_vars, classify_vars, extract_vars, analyze_vars, run_vars, send_vars, share_vars, session_vars>>

\* rate_info['last_reset'] = now
ResetLastReset(t) ==
    /\ thread[t].pc = "reset_last_reset"
    /\ RATE_LIMITS' = [RATE_LIMITS EXCEPT
                          ![rate_info_of(t)].last_reset = thread[t].now]
    /\ granted' = [granted EXCEPT ![rate_info_of(t)] = 0]
    /\ thread' = [thread EXCEPT ![t].pc = "test_limit"]
    /\ UNCHANGED <<program, now, ret, calls, validation_vars, split_vars, segment_vars, classify_vars, extract_vars, analyze_vars, run_vars, send_vars, share_vars, session_vars>>

\* if rate_info['requests'] >= rate_info['max_requests']: return False
TestLimit(t) ==
    /\ thread[t].pc = "test_limit"
    /\ IF OverLimit(RATE_LIMITS[rate_info_of(t)])
       THEN /\ thread' = [thread EXCEPT ![t] = thread_idle]
            /\ ret' = FALSE
       ELSE /\ thread' = [thread EXCEPT ![t].pc = "load_requests"]
            /\ ret' = ret
    /\ UNCHANGED <<program, now, RATE_LIMITS, calls, validation_vars, granted, split_vars, segment_vars, classify_vars, extract_vars, analyze_vars, run_vars, send_vars, share_vars, session_vars>>

\* rate_info['requests'] += 1: the load
LoadRequests(t) ==
    /\ thread[t].pc = "load_requests"
    /\ thread' = [thread EXCEPT ![t].pc = "store_requests",
                                ![t].requests = RATE_LIMITS[rate_info_of(t)].requests]
    /\ UNCHANGED <<program, now, limiter_vars, validation_vars, granted, split_vars, segment_vars, classify_vars, extract_vars, analyze_vars, run_vars, send_vars, share_vars, session_vars>>

\* rate_info['requests'] += 1: the store; return True
StoreRequests(t) ==
    /\ thread[t].pc = "store_requests"
    /\ RATE_LIMITS' = [RATE_LIMITS EXCEPT
                          ![rate_info_of(t)].requests = thread[t].requests + 1]
    /\ granted' = [granted EXCEPT ![rate_info_of(t)] = @ + 1]
    /\ ret' = TRUE
    /\ thread' = [thread EXCEPT ![t] = thread_idle]
    /\ UNCHANGED <<program, now, calls, validation_vars, split_vars, segment_vars, classify_vars, extract_vars, analyze_vars, run_vars, send_vars, share_vars, session_vars>>

NextThreads ==
    \/ \E t \in Threads :
          \/ \E domain \in ThreadDomains : Call(t, domain)
          \/ TestReset(t)
          \/ ResetRequests(t)
          \/ ResetLastReset(t)
          \/ TestLimit(t)
          \/ LoadRequests(t)
          \/ StoreRequests(t)
    \/ Tick

SpecThreads == Init /\ [][NextThreads]_vars

-----------------------------------------------------------------------------
(* A text is extracted, or edited, and split.                                *)

\* The text to analyse is set: the text extracted from the uploaded file, or
\* the text the user edited and submitted for re-analysis.
ExtractText ==
    /\ split_pc = "idle"
    /\ \E t \in Texts : text' = t
    /\ body_text' = <<"blank">>
    /\ references_text' = <<"blank">>
    /\ split_pc' = "extracted"
    /\ UNCHANGED <<program, now, limiter_vars, validation_vars, thread_vars, segment_vars, classify_vars, extract_vars, analyze_vars, run_vars, send_vars, share_vars, session_vars>>

\* body_text, references_text = split_body_and_references(text)
SplitBodyAndReferences ==
    /\ split_pc = "extracted"
    /\ body_text' = split_body_and_references(text).body_text
    /\ references_text' = split_body_and_references(text).references_text
    /\ split_pc' = "split"
    /\ UNCHANGED <<program, now, limiter_vars, validation_vars, thread_vars, text,
                   segment_vars, classify_vars, extract_vars, analyze_vars, run_vars, send_vars, share_vars, session_vars>>

NextSplit ==
    \/ ExtractText
    \/ SplitBodyAndReferences

SpecSplit == Init /\ [][NextSplit]_vars

-----------------------------------------------------------------------------
(* Segmentation of a references text.                                       *)

\* The caller has a references text at hand.
ReadReferences ==
    /\ segment_pc = "idle"
    /\ \E t \in ReferenceTexts : references_text' = t
    /\ references' = <<>>
    /\ filtered_references' = <<>>
    /\ segment_pc' = "read"
    /\ UNCHANGED <<program, now, limiter_vars, validation_vars, thread_vars,
                   text, body_text, split_pc, classify_vars, extract_vars, analyze_vars, run_vars, send_vars, share_vars, session_vars>>

\* extract_references_multiline(references_text)
ExtractReferencesMultiline ==
    /\ segment_pc = "read"
    /\ references' = accumulate(no_reference_yet, references_text)
    /\ filtered_references' = extract_references_multiline(references_text)
    /\ segment_pc' = "extracted"
    /\ UNCHANGED <<program, now, limiter_vars, validation_vars, thread_vars, split_vars,
                   classify_vars, extract_vars, analyze_vars, run_vars, send_vars, share_vars, session_vars>>

NextSegment ==
    \/ ReadReferences
    \/ ExtractReferencesMultiline

SpecSegment == Init /\ [][NextSegment]_vars

-----------------------------------------------------------------------------
(* Classification of a reference.                                           *)

\* The caller has a reference at hand.
GiveReference ==
    /\ classify_pc = "idle"
    /\ \E r \in References : reference' = r
    /\ confidence' = [style \in StyleNames |-> <<0, 1>>]
    /\ best_match' = Unknown
    /\ confidence_text' = ""
    /\ classify_pc' = "given"
    /\ UNCHANGED <<program, now, limiter_vars, validation_vars, thread_vars,
                   split_vars, segment_vars, extract_vars, analyze_vars, run_vars, send_vars, share_vars, session_vars>>

\* detect_citation_style(reference)
DetectCitationStyle ==
    /\ classify_pc = "given"
    /\ confidence' = [style \in StyleNames |-> style_confidence(style, reference)]
    /\ best_match' = detect_citation_style(reference)
    /\ classify_pc' = "detected"
    /\ UNCHANGED <<program, now, limiter_vars, validation_vars, thread_vars,
                   split_vars, segment_vars, reference, confidence_text, extract_vars,
                   analyze_vars, run_vars, send_vars, share_vars, session_vars>>

\* format_style_confidence(style_info[0], style_info[1]), called when the
\* reference is displayed.
FormatStyleConfidence ==
    /\ classify_pc = "detected"
    /\ confidence_text' =
           format_style_confidence(best_match.style_name, best_match.confidence)
    /\ classify_pc' = "formatted"
    /\ UNCHANGED <<program, now, limiter_vars, validation_vars, thread_vars,
                   split_vars, segment_vars, reference, confidence, best_match,
                   extract_vars, analyze_vars, run_vars, send_vars, share_vars,
                   session_vars>>

NextClassify ==
    \/ GiveReference
    \/ DetectCitationStyle
    \/ FormatStyleConfidence

SpecClassify == Init /\ [][NextClassify]_vars

-----------------------------------------------------------------------------
(* Extraction of the components of a reference.                             *)

\* The caller has a reference and the name of a style at hand.
CallExtract ==
    /\ extract_pc = "idle"
    /\ \E m \in Matches, s \in StylesGiven : matches' = m /\ style_given' = s
    /\ components' = empty_components
    /\ raised' = "no"
    /\ validation' = no_validation
    /\ extract_pc' = "called"
    /\ UNCHANGED <<program, now, limiter_vars, validation_vars, thread_vars,
                   split_vars, segment_vars, classify_vars, analyze_vars, run_vars, send_vars, share_vars, session_vars>>

\* extract_reference_components(reference, style)
ExtractReferenceComponents ==
    /\ extract_pc = "called"
    /\ components' = extract_reference_components(matches, style_given)
    /\ raised' = exception_of(built_components(matches, style_given))
    /\ extract_pc' = "returned"
    /\ UNCHANGED <<program, now, limiter_vars, validation_vars, thread_vars,
                   split_vars, segment_vars, classify_vars, matches, style_given,
                   validation, analyze_vars, run_vars, send_vars, share_vars, session_vars>>

\* validate_citation_format(reference, style), which calls
\* extract_reference_components(reference, style) itself.
ValidateCitationFormat ==
    /\ extract_pc = "called"
    /\ components' = extract_reference_components(matches, style_given)
    /\ raised' = exception_of(built_components(matches, style_given))
    /\ validation' = validate_citation_format(matches, style_given)
    /\ extract_pc' = "validated"
    /\ UNCHANGED <<program, now, limiter_vars, validation_vars, thread_vars,
                   split_vars, segment_vars, classify_vars, matches, style_given,
                   analyze_vars, run_vars, send_vars, share_vars, session_vars>>

NextExtract ==
    \/ CallExtract
    \/ ExtractReferenceComponents
    \/ ValidateCitationFormat

SpecExtract == Init /\ [][NextExtract]_vars

-----------------------------------------------------------------------------
(* Re-analysis of a content, twice, the limiter reset in between.           *)

\* The user has edited the content.
EditContent ==
    /\ analyze_pc = "idle"
    /\ \E t \in Contents : text' = t
    /\ analysis' = no_analysis
    /\ first_analysis' = no_analysis
    /\ analyze_pc' = "edited"
    /\ UNCHANGED <<program, now, limiter_vars, validation_vars, thread_vars,
                   body_text, references_text, split_pc, segment_vars,
                   classify_vars, extract_vars, run_vars, send_vars, share_vars, session_vars>>

\* perform_reanalysis(modified_content), the first call.
PerformReanalysis ==
    /\ analyze_pc = "edited"
    /\ analysis' = perform_reanalysis(text, analysis)
    /\ first_analysis' = perform_reanalysis(text, analysis)
    /\ analyze_pc' = "analyzed"
    /\ UNCHANGED <<program, now, limiter_vars, validation_vars, thread_vars,
                   split_vars, segment_vars, classify_vars, extract_vars, run_vars, send_vars, share_vars, session_vars>>

\* The buckets of the limiter are reset.
ResetBuckets ==
    /\ analyze_pc = "analyzed"
    /\ RATE_LIMITS' = RATE_LIMITS_init
    /\ calls' = [b \in Buckets |-> 0]
    /\ analyze_pc' = "reset"
    /\ UNCHANGED <<program, now, ret, validation_vars, thread_vars,
                   split_vars, segment_vars, classify_vars, extract_vars,
                   analysis, first_analysis, run_vars, send_vars, share_vars, session_vars>>

\* perform_reanalysis(modified_content), the second call on the same content.
PerformReanalysisAgain ==
    /\ analyze_pc = "reset"
    /\ analysis' = perform_reanalysis(text, analysis)
    /\ analyze_pc' = "reanalyzed"
    /\ UNCHANGED <<program, now, limiter_vars, validation_vars, thread_vars,
                   split_vars, segment_vars, classify_vars, extract_vars,
                   first_analysis, run_vars, send_vars, share_vars, session_vars>>

NextAnalyze ==
    \/ EditContent
    \/ PerformReanalysis
    \/ ResetBuckets
    \/ PerformReanalysisAgain

SpecAnalyze == Init /\ [][NextAnalyze]_vars

-----------------------------------------------------------------------------
(* One run of the script over the references of the document: the loop of   *)
(* the tab that displays every reference, then the loop that writes the     *)
(* downloadable report.  Streamlit runs the script again on every           *)
(* interaction; RATE_LIMITS lives in the module and survives the runs.      *)

MaxRunRefs == 2

\* The scripts whose tab and report walk the references in list order.
RunPrograms == {"citation_analyzer", "enhanced_pdf_extractor"}

\* References of a run: one with a DOI, one with a URL, one with neither.
RunReferenceTexts == {<<"doi">>, <<"url_a">>, <<>>}

RunReferences == UNION {[1..n -> RunReferenceTexts] : n \in 0..MaxRunRefs}

\* The network of a run answers every request with 200, or every one with 404.
RunPlans == {plan \in Plans : plan.head = plan.get /\ plan.head \in {200, 404}}

\* "if references:" followed by "for i, ref in enumerate(references, 1):".
loop_pc(refs, first) == IF refs = <<>> THEN "done" ELSE first

\* Where the loops stand after the i-th reference of loop at.
after_reference(refs, at, i) ==
    IF i < Len(refs) THEN [pc |-> at, i |-> i + 1]
    ELSE IF at = "display" THEN [pc |-> "report", i |-> 1]
    ELSE [pc |-> "done", i |-> 1]

InitRun ==
    /\ program \in RunPrograms
    /\ RATE_LIMITS = RATE_LIMITS_init
    /\ now = 0
    /\ ret = TRUE
    /\ calls = [b \in Buckets |-> 0]
    /\ pc = "idle"
    /\ ref = <<>>
    /\ results = results_init
    /\ trace = <<>>
    /\ thread = [t \in Threads |-> thread_idle]
    /\ granted = [b \in Buckets |-> 0]
    /\ text = <<"blank">>
    /\ body_text = <<"blank">>
    /\ references_text = <<"blank">>
    /\ split_pc = "idle"
    /\ references = <<>>
    /\ filtered_references = <<>>
    /\ segment_pc = "idle"
    /\ reference = no_reference
    /\ confidence = [style \in StyleNames |-> <<0, 1>>]
    /\ best_match = Unknown
    /\ classify_pc = "idle"
    /\ confidence_text = ""
    /\ matches = no_match
    /\ style_given = "Unknown"
    /\ components = empty_components
    /\ raised = "no"
    /\ extract_pc = "idle"
    /\ validation = no_validation
    /\ analysis = no_analysis
    /\ first_analysis = no_analysis
    /\ analyze_pc = "idle"
    /\ run_references = <<>>
    /\ run_pc = "idle"
    /\ run_i = 1
    /\ displayed = <<>>
    /\ reported = <<>>
    /\ validations = <<>>
    /\ requests_sent = [domain \in Domains |-> [start |-> 0, n |-> 0]]
    /\ grants = [domain \in Domains |-> 0]
    /\ uploaded_file = no_file
    /\ session_state = no_session_state
    /\ edits = {}

\* The script runs: references = results['references'].
StartRun(refs) ==
    /\ run_pc = "idle"
    /\ run_references' = refs
    /\ run_pc' = loop_pc(refs, "display")
    /\ run_i' = 1
    /\ displayed' = <<>>
    /\ reported' = <<>>
    /\ validations' = [i \in 1..Len(refs) |-> 0]
    /\ UNCHANGED <<program, now, limiter_vars, validation_vars, thread_vars,
                   split_vars, segment_vars, classify_vars, extract_vars,
                   analyze_vars, send_vars, share_vars, session_vars>>

\* "validation_result = validate_reference(ref)" in the loop that stands at at.
ValidateInLoop(at, plan) ==
    /\ run_pc = at
    /\ Returns(validate_reference(program,
                    [rl |-> RATE_LIMITS, cs |-> calls, ret |-> ret,
                     results |-> results_init, trace |-> <<>>, returned |-> FALSE],
                    now, run_references[run_i], plan))
    /\ validations' = [validations EXCEPT ![run_i] = @ + 1]
    /\ run_pc' = after_reference(run_references, at, run_i).pc
    /\ run_i' = after_reference(run_references, at, run_i).i

\* The tab's loop: the result goes to display_reference_with_style.
DisplayReference(plan) ==
    /\ ValidateInLoop("display", plan)
    /\ displayed' = Append(displayed, results')
    /\ UNCHANGED <<program, now, pc, ref, thread_vars, split_vars, segment_vars,
                   classify_vars, extract_vars, analyze_vars, run_references,
                   reported, send_vars, share_vars, session_vars>>

\* The report's loop: the result is written into the report.
ReportReference(plan) ==
    /\ ValidateInLoop("report", plan)
    /\ reported' = Append(reported, results')
    /\ UNCHANGED <<program, now, pc, ref, thread_vars, split_vars, segment_vars,
                   classify_vars, extract_vars, analyze_vars, run_references,
                   displayed, send_vars, share_vars, session_vars>>

\* The run is over; the next interaction starts another one.
EndRun ==
    /\ run_pc = "done"
    /\ run_pc' = "idle"
    /\ UNCHANGED <<program, now, limiter_vars, validation_vars, thread_vars,
                   split_vars, segment_vars, classify_vars, extract_vars,
                   analyze_vars, run_references, run_i, displayed, reported,
                   validations, send_vars, share_vars, session_vars>>

NextRun ==
    \/ \E refs \in RunReferences : StartRun(refs)
    \/ \E plan \in RunPlans : DisplayReference(plan)
    \/ \E plan \in RunPlans : ReportReference(plan)
    \/ EndRun
    \/ Tick

SpecRun == InitRun /\ [][NextRun]_vars

-----------------------------------------------------------------------------
(* The requests that validations send, counted per domain over an interval  *)
(* of reset_interval seconds.                                               *)

\* The model follows at most max_requests + MaxOver requests per domain and
\* interval.
MaxOver == 2

\* A reference with a DOI and one with a URL of example.com.
SendReferences == {<<"doi">>, <<"url_a">>}

\* The network answers every request with 200, or a HEAD with 403 and the
\* GET that retries it with 200.
SendPlans == {plan \in Plans : plan.get = 200 /\ plan.head \in {200, 403}}

\* requests.get and requests.head calls of one validation that go to domain.
requests_to(tr, domain) ==
    Cardinality({i \in 1..Len(tr) :
                    tr[i].op \in {"GET", "HEAD"} /\ tr[i].target = domain})

\* The count of the interval the requests of time t fall into: the running
\* one, or one that starts at t once the running one is over.
sent_after(s, rl, t, tr) ==
    [domain \in Domains |->
        IF t - s[domain].start > rl[BucketOf(domain)].reset_interval
        THEN [start |-> t, n |-> requests_to(tr, domain)]
        ELSE [s[domain] EXCEPT !.n = @ + requests_to(tr, domain)]]

\* validate_reference(r) at time now, with the network answering as in plan.
SendValidation(r, plan) ==
    /\ Returns(validate_reference(program,
                    [rl |-> RATE_LIMITS, cs |-> calls, ret |-> ret,
                     results |-> results_init, trace |-> <<>>, returned |-> FALSE],
                    now, r, plan))
    /\ requests_sent' = sent_after(requests_sent, RATE_LIMITS, now, trace')
    /\ \A domain \in Domains :
           requests_sent'[domain].n <= RATE_LIMITS[BucketOf(domain)].max_requests + MaxOver
    /\ UNCHANGED <<program, now, pc, ref, thread_vars, split_vars, segment_vars,
                   classify_vars, extract_vars, analyze_vars, run_vars, share_vars, session_vars>>

NextSend ==
    \/ \E r \in SendReferences, plan \in SendPlans : SendValidation(r, plan)
    \/ Tick

SpecSend == InitValidate /\ [][NextSend]_vars

-----------------------------------------------------------------------------
(* check_rate_limit called for several domains, with the grants counted per *)
(* domain.                                                                  *)

\* Grants followed per window for a domain that has a bucket of its own.
MaxOwnGrants == 2

\* The grants per domain after check_rate_limit(domain) at time t returned
\* r: a reset of the bucket starts the count of its domains anew.
grants_after(g, rl, t, domain, r) ==
    [d \in Domains |->
        IF BucketOf(d) # BucketOf(domain)
        THEN g[d]
        ELSE (IF WindowElapsed(rl[BucketOf(d)], t) THEN 0 ELSE g[d])
             + (IF d = domain /\ r THEN 1 ELSE 0)]

\* check_rate_limit(domain)
CheckRateLimitOf(domain) ==
    /\ MayCall(RATE_LIMITS, now, domain)
    /\ domain \in Buckets =>
           \/ WindowElapsed(RATE_LIMITS[domain], now)
           \/ grants[domain] < MaxOwnGrants
    /\ LET r == check_rate_limit(RATE_LIMITS, now, domain)
       IN  /\ RATE_LIMITS' = r.rl
           /\ ret' = r.ret
    /\ calls' = CallsAfter(calls, RATE_LIMITS, now, domain)
    /\ grants' = grants_after(grants, RATE_LIMITS, now, domain, ret')
    /\ UNCHANGED <<program, now, validation_vars, thread_vars, split_vars,
                   segment_vars, classify_vars, extract_vars, analyze_vars,
                   run_vars, send_vars, session_vars>>

NextShare ==
    \/ \E domain \in Domains : CheckRateLimitOf(domain)
    \/ Tick

SpecShare == Init /\ [][NextShare]_vars

-----------------------------------------------------------------------------
(* The session: uploads and clicks.                                         *)

\* The user puts file f into the uploader; main runs.
Upload(f) ==
    /\ uploaded_file' = f
    /\ session_state' = run_main(session_state, f)
    /\ edits' = IF f = uploaded_file THEN edits ELSE {}
    /\ UNCHANGED <<program, now, limiter_vars, validation_vars, thread_vars,
                   split_vars, segment_vars, classify_vars, extract_vars,
                   analyze_vars, run_vars, send_vars, share_vars>>

\* The buttons are drawn in a run that got past the extraction of a text.
buttons_shown ==
    /\ uploaded_file # no_file
    /\ ~is_blank(uploaded_file.text)

\* The user edits the text area and clicks "Re-analyze Citations": main runs
\* up to the button, acts on it, and st.rerun() runs it once more.
ReAnalyze(modified_content) ==
    /\ buttons_shown
    /\ session_state' =
           run_main(reanalyze_clicked(run_main(session_state, uploaded_file),
                                      modified_content),
                    uploaded_file)
    /\ edits' = edits \cup {modified_content}
    /\ UNCHANGED <<program, now, limiter_vars, validation_vars, thread_vars,
                   split_vars, segment_vars, classify_vars, extract_vars,
                   analyze_vars, run_vars, send_vars, share_vars, uploaded_file>>

\* The user clicks "Reset to Original".
ResetToOriginal ==
    /\ buttons_shown
    /\ session_state.text_area_key < MaxKey
    /\ session_state' =
           run_main(reset_clicked(run_main(session_state, uploaded_file),
                                  uploaded_file.text),
                    uploaded_file)
    /\ UNCHANGED <<program, now, limiter_vars, validation_vars, thread_vars,
                   split_vars, segment_vars, classify_vars, extract_vars,
                   analyze_vars, run_vars, send_vars, share_vars, uploaded_file,
                   edits>>

\* The user clicks "Force Refresh".
ForceRefresh ==
    /\ buttons_shown
    /\ session_state.text_area_key < MaxKey
    /\ session_state' =
           run_main(refresh_clicked(run_main(session_state, uploaded_file)),
                    uploaded_file)
    /\ UNCHANGED <<program, now, limiter_vars, validation_vars, thread_vars,
                   split_vars, segment_vars, classify_vars, extract_vars,
                   analyze_vars, run_vars, send_vars, share_vars, uploaded_file,
                   edits>>

NextSession ==
    \/ \E f \in Files : Upload(f)
    \/ \E modified_content \in Edits : ReAnalyze(modified_content)
    \/ ResetToOriginal
    \/ ForceRefresh

SpecSession == Init /\ [][NextSession]_vars

-----------------------------------------------------------------------------
(* Claims about the rate limiter, checked under Spec.                       *)

\* C1: in every reachable state every rate-limit bucket satisfies
\* 0 <= requests <= max_requests.
C1_CountWithinLimit ==
    \A b \in Buckets :
        /\ RATE_LIMITS[b].requests >= 0
        /\ RATE_LIMITS[b].requests <= RATE_LIMITS[b].max_requests

\* A bucket is full and one more call has been made (and denied) in its window.
C1_Witness ==
    /\ RATE_LIMITS["doi.org"].requests = RATE_LIMITS["doi.org"].max_requests
    /\ calls["doi.org"] = RATE_LIMITS["doi.org"].max_requests + 1
    /\ ~ret

\* The limits the specification gives: dl.acm.org 10, doi.org 30, others 50.
C2_M(b) == CASE b = "dl.acm.org" -> 10 [] b = "doi.org" -> 30 [] OTHER -> 50

\* C2: within one window the k-th call for a bucket with limit M returns true
\* for k <= M and false for k = M + 1; the first call after the window has
\* elapsed (now - last_reset > 60) returns true again.
C2_FirstMGranted ==
    [][\A b \in Buckets :
          /\ (calls'[b] = calls[b] + 1 /\ now - RATE_LIMITS[b].last_reset <= 60)
                => (ret' = (calls[b] + 1 <= C2_M(b)))
          /\ (calls'[b] # calls[b] /\ now - RATE_LIMITS[b].last_reset > 60)
                => (ret' = TRUE /\ calls'[b] = 1)]_vars

\* The window of dl.acm.org has elapsed and been reset by a call; in the new
\* window 10 calls were granted again and the 11th was denied.
C2_Witness ==
    /\ now = 61
    /\ RATE_LIMITS["dl.acm.org"].last_reset = 61
    /\ RATE_LIMITS["dl.acm.org"].requests = 10
    /\ calls["dl.acm.org"] = 11
    /\ ~ret

\* C3: a call inside the current window that returns false leaves its bucket
\* unchanged (requests not incremented, last_reset not modified), and a call
\* changes no bucket but its own.
C3_DeniedCallChangesNothing ==
    [][\A b \in Buckets :
          calls'[b] # calls[b] =>
              /\ \A o \in Buckets \ {b} : RATE_LIMITS'[o] = RATE_LIMITS[o]
              /\ (~ret' /\ now - RATE_LIMITS[b].last_reset <= 60)
                    => RATE_LIMITS'[b] = RATE_LIMITS[b]]_vars

\* A denied call on the last second of the window, with another bucket in use.
C3_Witness ==
    /\ now = 60
    /\ ~ret
    /\ calls["dl.acm.org"] = 11
    /\ RATE_LIMITS["dl.acm.org"].requests = 10
    /\ RATE_LIMITS["default"].requests = 2

-----------------------------------------------------------------------------
(* Claim about concurrent callers, checked under SpecThreads.               *)

\* C4: the check-and-increment of check_rate_limit is atomic per domain:
\* under every interleaving of concurrent calls for one domain the number of
\* calls that return True within one window never exceeds max_requests, and
\* requests never exceeds max_requests.
C4_AtomicCheckAndIncrement ==
    \A b \in Buckets :
        /\ granted[b] <= RATE_LIMITS[b].max_requests
        /\ RATE_LIMITS[b].requests <= RATE_LIMITS[b].max_requests

-----------------------------------------------------------------------------
(* Claims about reference validation, checked under SpecValidate.           *)

ReferenceValidated == pc = "picked" /\ pc' = "done"

AllowEvents(tr, b) ==
    {i \in 1..Len(tr) : tr[i].op = "allow" /\ BucketOf(tr[i].target) = b}

Granted(tr, b) == {i \in AllowEvents(tr, b) : tr[i].res = 1}

Requests(tr) == {i \in 1..Len(tr) : tr[i].op \in {"HEAD", "GET"}}

\* C5: the buckets are shared by all validations and only check_rate_limit
\* modifies them: a step that is not a validation leaves every bucket as it
\* is; a validation leaves the limit and the interval of every bucket alone,
\* adds to the count of a bucket exactly the calls it was granted for it, and
\* resets a bucket (count to zero, window start to now) only when it calls
\* check_rate_limit for it with now - last_reset > 60, never between
\* references otherwise.
C5_BucketsOnlyChangedByAllow ==
    [][\A b \in Buckets :
          IF ReferenceValidated
          THEN LET reset == /\ AllowEvents(trace', b) # {}
                            /\ now - RATE_LIMITS[b].last_reset > 60
               IN  /\ RATE_LIMITS'[b].max_requests = RATE_LIMITS[b].max_requests
                   /\ RATE_LIMITS'[b].reset_interval = RATE_LIMITS[b].reset_interval
                   /\ RATE_LIMITS'[b].last_reset =
                         IF reset THEN now ELSE RATE_LIMITS[b].last_reset
                   /\ RATE_LIMITS'[b].requests =
                         (IF reset THEN 0 ELSE RATE_LIMITS[b].requests)
                             + Cardinality(Granted(trace', b))
          ELSE RATE_LIMITS'[b] = RATE_LIMITS[b]]_vars

\* After the window has elapsed a validation reset the bucket and was granted
\* one call; the next validation, of a reference with two URLs, was granted
\* two more on top of it.
C5_Witness ==
    /\ pc = "done"
    /\ program = "enhanced_pdf_extractor"
    /\ now = 61
    /\ RATE_LIMITS["default"].last_reset = 61
    /\ RATE_LIMITS["default"].requests = 3
    /\ Len(trace) = 4
    /\ trace[3] = Event("allow", "other.org", 1)

HasCanonicalAcmUrl(r) == \E i \in 1..Len(r) : r[i] \in {"acm_doi", "acm_cit"}

HasAcmUrl(r) == \E i \in 1..Len(r) : r[i] \in {"acm_doi", "acm_cit", "acm_other"}

HasDoi(r) == \E i \in 1..Len(r) : r[i] \in {"doi", "doiurl"}

HasBareUrl(r) == \E i \in 1..Len(r) : r[i] \in {"url_a", "url_b"}

\* C6: validating a reference that contains an ACM Digital Library URL of
\* the canonical shape yields a valid result by format alone: the result is
\* valid and no request has been sent to any resolver.
C6_AcmUrlValidWithoutNetwork ==
    (pc = "done" /\ HasCanonicalAcmUrl(ref))
        => (results.valid /\ ~results.raised /\ Requests(trace) = {})

\* C7: for a reference with a DOI and no canonical ACM URL every request to
\* the DOI resolver is preceded by a granted check_rate_limit for doi.org; a
\* denied check flags the result rate_limited and no DOI request is sent; a
\* granted check is followed by the request, and the result is valid only if
\* the resolver answered with success.
C7_DoiRequestsRateLimited ==
    (pc = "done" /\ HasDoi(ref) /\ ~HasCanonicalAcmUrl(ref)) =>
        LET doiGets == {i \in 1..Len(trace) :
                            trace[i].op = "GET" /\ trace[i].target = "doi.org"}
        IN  /\ \A i \in doiGets :
                  \E j \in Granted(trace, "doi.org") : j < i
            /\ (AllowEvents(trace, "doi.org") \ Granted(trace, "doi.org") # {})
                  => (results.rate_limited /\ doiGets = {})
            /\ (Granted(trace, "doi.org") # {}) => doiGets # {}
            /\ results.doi_valid => \E i \in doiGets : trace[i].res = 200

\* What validation of a reference holding only bare URLs does for each URL:
\* check_rate_limit for the URL's domain first; if denied the result is
\* flagged rate_limited and no request follows; if granted a HEAD request
\* follows, and a GET request is sent only right after a HEAD answered with
\* 403, 405 or 406; the result is valid only if the last answer was 200.
UrlProtocol ==
    /\ trace # <<>>
    /\ trace[1].op = "allow"
    /\ \A i \in 1..Len(trace) :
          /\ trace[i].op = "allow" /\ trace[i].res = 1
                => (i < Len(trace) /\ trace[i + 1].op = "HEAD"
                                  /\ trace[i + 1].target = trace[i].target)
          /\ trace[i].op = "allow" /\ trace[i].res = 0
                => (/\ results.rate_limited
                    /\ i < Len(trace) => trace[i + 1].op = "allow")
          /\ trace[i].op = "HEAD"
                => (i > 1 /\ trace[i - 1] = Event("allow", trace[i].target, 1))
          /\ trace[i].op = "GET"
                => (i > 1 /\ trace[i - 1].op = "HEAD"
                          /\ trace[i - 1].target = trace[i].target
                          /\ trace[i - 1].res \in {403, 405, 406})
    /\ results.valid
          => (trace[Len(trace)].op \in {"HEAD", "GET"} /\ trace[Len(trace)].res = 200)

OnlyBareUrls(r) == HasBareUrl(r) /\ ~HasAcmUrl(r) /\ ~HasDoi(r)

\* C8 as stated: for every reference with a bare URL, no ACM URL and no DOI,
\* validation follows the protocol above.
C8_UrlFallback_AsStated ==
    (pc = "done" /\ OnlyBareUrls(ref)) => UrlProtocol

\* C8, amended: enhanced-pdf-extractor.py and app.py follow the protocol;
\* citation_analyzer.py only records that a URL was found: it calls neither
\* check_rate_limit nor the network and never reports such a reference valid.
C8_UrlFallback ==
    (pc = "done" /\ OnlyBareUrls(ref)) =>
        IF program = "citation_analyzer"
        THEN trace = <<>> /\ results.url_found /\ ~results.valid
                          /\ ~results.rate_limited
        ELSE UrlProtocol

\* Both URLs of a reference were tried: each time the call was granted, the
\* HEAD request was answered with 405 and the GET retry with 404.
C8_Witness ==
    /\ pc = "done"
    /\ program = "app"
    /\ ref = <<"url_a", "url_b">>
    /\ Len(trace) = 6
    /\ trace[4] = Event("allow", "other.org", 1)
    /\ trace[5] = Event("HEAD", "other.org", 405)
    /\ trace[6] = Event("GET", "other.org", 404)
    /\ ~results.valid

\* C9: every validation result is exactly one of valid, not valid and
\* rate-limited: a result flagged rate_limited is never also flagged valid,
\* and a denied rate-limit check is never reported as a plain failure.
C9_TriState ==
    pc = "done" =>
        /\ ~(results.rate_limited /\ results.valid)
        /\ (\E i \in 1..Len(trace) : trace[i].op = "allow" /\ trace[i].res = 0)
              => results.rate_limited

-----------------------------------------------------------------------------
(* Claims about split_body_and_references, checked under SpecSplit.         *)

NoMarkerNoHeader(t) ==
    \A i \in 1..Len(t) :
        t[i] \notin {"marker", "header", "header_rest", "header_two"}

C10_Sample(t) ==
    {i \in 1..Len(t) :
        /\ i > Len(t) - ((Len(t) + 3) \div 4)
        /\ i <= Len(t) - ((Len(t) + 3) \div 4) + 10}

NoHeader(t) ==
    \A i \in 1..Len(t) : t[i] \notin {"header", "header_rest", "header_two"}

C11_Markers(t) == {i \in 1..Len(t) : t[i] = "marker"}

\* The last line of the page that starts after the marker at line m.
C11_PageLast(t, m) ==
    IF \E j \in C11_Markers(t) : j > m
    THEN (CHOOSE j \in C11_Markers(t) :
             j > m /\ \A k \in C11_Markers(t) : k > m => j <= k) - 1
    ELSE Len(t)

\* Markers of the last three pages whose page has at least 5 lines and at
\* least 3 matches of the reference patterns in its first ten lines.
C11_ReferencePages(t) ==
    {m \in C11_Markers(t) :
        /\ Cardinality({j \in C11_Markers(t) : j > m}) < 3
        /\ C11_PageLast(t, m) - m >= 5
        /\ Cardinality({i \in (m + 1)..C11_PageLast(t, m) :
                            i <= m + 10 /\ t[i] = "ref"}) >= 3}

C11_LastReferencePage(t) ==
    CHOOSE m \in C11_ReferencePages(t) : \A k \in C11_ReferencePages(t) : k <= m

OrBlank(lines) == IF lines = <<>> THEN <<"blank">> ELSE lines

IsHeader(line) == line \in {"header", "header_rest", "header_two"}

\* The first header line of t and the first page marker after it (one past
\* the end of t if there is none), 1-based.
FirstHeader(t) ==
    CHOOSE i \in 1..Len(t) : IsHeader(t[i]) /\ \A j \in 1..(i - 1) : ~IsHeader(t[j])

SectionEnd(t) ==
    IF \E j \in (FirstHeader(t) + 1)..Len(t) : t[j] = "marker"
    THEN CHOOSE j \in (FirstHeader(t) + 1)..Len(t) :
             t[j] = "marker" /\ \A k \in (FirstHeader(t) + 1)..(j - 1) : t[k] # "marker"
    ELSE Len(t) + 1

NotBlank(line) == line # "blank"

NotBlankNorMarker(line) == line \notin {"blank", "marker"}

\* C12: only the first header line of the text is honoured.  Blank lines
\* apart, the references are what follows the first header line up to the
\* next page marker, and every later header line is in there or in the body
\* as the line it is, like any other line.
C12_FirstHeaderOnly ==
    (split_pc = "split" /\ ~NoHeader(text)) =>
        /\ \/ /\ text[FirstHeader(text)] = "header"
              /\ SelectSeq(references_text, NotBlank) =
                     SelectSeq(SubSeq(text, FirstHeader(text) + 1,
                                      SectionEnd(text) - 1), NotBlank)
           \/ /\ text[FirstHeader(text)] # "header"
              /\ references_text # <<>>
              /\ Tail(SelectSeq(references_text, NotBlank)) =
                     SelectSeq(SubSeq(text, FirstHeader(text) + 1,
                                      SectionEnd(text) - 1), NotBlank)
        /\ SelectSeq(body_text, NotBlankNorMarker) =
               SelectSeq(SubSeq(text, 1, FirstHeader(text) - 1)
                         \o SubSeq(text, SectionEnd(text), Len(text)),
                         NotBlankNorMarker)

\* A text with two header lines has been split at the first one: the second
\* header line is a line of the references.
C12_Witness ==
    /\ split_pc = "split"
    /\ text = <<"header", "ref", "header_rest", "ref">>
    /\ references_text = <<"ref", "header_rest", "ref">>
    /\ body_text = <<"blank">>

\* What follows the header in a header line: nothing in "References", the
\* entry in "References [1] Knuth", and "cited in references [1] Knuth" in
\* "Sources cited in references [1] Knuth", whose header is its first word.
TrailingText(line) ==
    CASE line = "header_rest" -> <<"ref">>
      [] line = "header_two" -> <<"cited in references [1] Knuth">>
      [] OTHER -> <<>>

\* C13: on a header match the references are the trailing text of the header
\* line followed by all lines after it up to, not including, the next page
\* marker or the end of the text, and the body is every other line except
\* the header line, in order: no line is in both, no other line is lost.
C13_HeaderSplitKeepsEveryLine ==
    (split_pc = "split" /\ ~NoHeader(text)) =>
        /\ references_text =
               OrBlank(TrailingText(text[FirstHeader(text)])
                           \o SubSeq(text, FirstHeader(text) + 1,
                                     SectionEnd(text) - 1))
        /\ body_text =
               OrBlank(SubSeq(text, 1, FirstHeader(text) - 1)
                           \o SubSeq(text, SectionEnd(text), Len(text)))

-----------------------------------------------------------------------------
(* Claims about the segmentation, checked under SpecSegment.                *)

\* The lines of a list of references, one after the other.
RECURSIVE Flatten(_)
Flatten(rs) == IF rs = <<>> THEN <<>> ELSE Head(rs) \o Flatten(Tail(rs))

\* C14 as stated: segmentation never drops reference text; the returned
\* references, concatenated, hold every non-blank line of the references
\* text, in order.
C14_NothingDropped_AsStated ==
    segment_pc = "extracted" =>
        Flatten(filtered_references) = SelectSeq(references_text, NotBlank)

Returned(r) == \E i \in 1..Len(filtered_references) : filtered_references[i] = r

\* C14, amended: the accumulation loop drops nothing: the references it
\* builds, concatenated, are the non-blank lines of the references text in
\* order.  The references returned are those of them, in the same order,
\* that pass the filter; a reference that is not returned is dropped whole
\* and is one that contains a skip phrase, or is at most 20 characters long,
\* or has neither space nor comma, or shows no reference indicator.
C14_NothingDropped ==
    segment_pc = "extracted" =>
        /\ Flatten(references) = SelectSeq(references_text, NotBlank)
        /\ \A i \in 1..Len(references) : references[i] # <<>>
        /\ filtered_references = SelectSeq(references, Returned)
        /\ \A i \in 1..Len(references) :
               ~Returned(references[i]) <=>
                   \/ is_non_reference(references[i])
                   \/ ref_len(references[i]) <= 20
                   \/ ~has_space_or_comma(references[i])
                   \/ ~has_indicator(references[i])

\* A text of a full entry, a short one and a prose line that follows it has
\* been segmented: the entry is returned, the short reference with the line
\* appended to it has no indicator and is dropped.
C14_Witness ==
    /\ segment_pc = "extracted"
    /\ references_text = <<"entry", "blank", "ref", "prose">>
    /\ references = << <<"entry">>, <<"ref", "prose">> >>
    /\ filtered_references = << <<"entry">> >>

-----------------------------------------------------------------------------
(* Claims about the classification, checked under SpecClassify.             *)

\* The fraction c is below 0.3.
BelowThreshold(c) == c[1] * 10 < 3 * c[2]

\* C15: the classification is ("Unknown", 0.0) or a registered style with a
\* confidence of at least 0.3; it is "Unknown" exactly when the highest
\* confidence of the styles is below 0.3; the empty reference is "Unknown".
C15_UnknownOrConfident ==
    classify_pc = "detected" =>
        /\ \/ best_match = [style_name |-> "Unknown", confidence |-> <<0, 1>>]
           \/ /\ best_match.style_name \in {"APA", "MLA", "Chicago", "IEEE", "ACM"}
              /\ ~BelowThreshold(best_match.confidence)
        /\ best_match.style_name = "Unknown"
               <=> \A style \in StyleNames : BelowThreshold(confidence[style])
        /\ reference = no_reference => best_match.style_name = "Unknown"

\* A reference whose best style reaches a confidence of 5/18, which is more
\* than 1/4 and less than 0.3, has been classified as "Unknown".
C15_Witness ==
    /\ classify_pc = "detected"
    /\ best_match = [style_name |-> "Unknown", confidence |-> <<0, 1>>]
    /\ \E style \in StyleNames : confidence[style] = <<5, 18>>

\* C16: the confidence of every style, (pattern point + year point + author
\* point + matched punctuation / defined punctuation) / (len(patterns) + 3)
\* with a pattern point of at most 1, lies in [0, 1], and so does the
\* confidence that is returned.
C16_ConfidenceInUnitInterval ==
    classify_pc = "detected" =>
        /\ \A style \in StyleNames :
               /\ confidence[style][2] > 0
               /\ 0 <= confidence[style][1]
               /\ confidence[style][1] <= confidence[style][2]
        /\ best_match.confidence[2] > 0
        /\ 0 <= best_match.confidence[1]
        /\ best_match.confidence[1] <= best_match.confidence[2]

\* A reference with a pattern, the year, the author and all the punctuation
\* of a style of three patterns has been classified: the score is 4 of 6.
C16_Witness ==
    /\ classify_pc = "detected"
    /\ best_match.confidence = <<12, 18>>
    /\ confidence[best_match.style_name] = <<12, 18>>

\* The place of a style in the registry.
Place(style) == CHOOSE i \in 1..Len(Styles) : Styles[i] = style

\* C17: ties are broken by the order of the registry, APA, MLA, Chicago,
\* IEEE, ACM: the style returned is the first of the styles with the highest
\* confidence, so the result depends on the reference and the registry only.
C17_TiesByRegistryOrder ==
    (classify_pc = "detected" /\ best_match.style_name # "Unknown") =>
        /\ Styles = <<"APA", "MLA", "Chicago", "IEEE", "ACM">>
        /\ best_match.confidence = confidence[best_match.style_name]
        /\ \A style \in StyleNames :
               IF Place(style) < Place(best_match.style_name)
               THEN confidence[style][1] * best_match.confidence[2]
                        < best_match.confidence[1] * confidence[style][2]
               ELSE confidence[style][1] * best_match.confidence[2]
                        <= best_match.confidence[1] * confidence[style][2]

\* A reference for which APA and Chicago reach the same, highest, confidence
\* of 1/3 has been classified as APA.
C17_Witness ==
    /\ classify_pc = "detected"
    /\ best_match = [style_name |-> "APA", confidence |-> <<6, 18>>]
    /\ confidence["Chicago"] = <<6, 18>>
    /\ \A style \in StyleNames : confidence[style][1] * 18 <= 6 * confidence[style][2]

-----------------------------------------------------------------------------
(* Claims about the extraction, checked under SpecExtract.                  *)

\* C18: the extraction never fails, for any text and any style, registered
\* or not; it returns all eleven fields, each of them a string, and the
\* fields of which nothing was found are the empty string.
C18_ExtractNeverFails ==
    extract_pc = "returned" =>
        /\ raised = "no"
        /\ DOMAIN components =
               {"authors", "year", "title", "source", "volume", "issue",
                "pages", "doi", "url", "publisher", "location"}
        /\ \A field \in DOMAIN components : components[field] \in {"", "text"}
        /\ matches = no_match => \A field \in DOMAIN components : components[field] = ""
        /\ style_given \notin {"APA", "IEEE", "MLA", "ACM"} =>
               \A field \in {"authors", "year", "title", "source", "publisher", "location"} :
                   components[field] = ""

\* The ACM branch has met a reference that starts with its year, so that the
\* optional group of the authors took no part in the match, and returned
\* with the year and without authors.
C18_Witness ==
    /\ extract_pc = "returned"
    /\ style_given = "ACM"
    /\ matches.author_year = "year"
    /\ raised = "no"
    /\ DOMAIN components # {}
    /\ components["authors"] = ""
    /\ components["year"] = "text"

-----------------------------------------------------------------------------
(* Claims about the re-analysis, checked under SpecAnalyze.                 *)

NoMarker(t) == \A i \in 1..Len(t) : t[i] # "marker"

\* C20 as stated: the analysis never raises, and for an empty document or a
\* document without page markers it returns zero references.
C20_NeverRaisesNoMarkerNoReferences_AsStated ==
    analyze_pc \in {"analyzed", "reanalyzed"} =>
        /\ analysis.raised = "no"
        /\ (text = <<"blank">> \/ NoMarker(text)) => analysis.references = <<>>

\* C20, amended: the analysis never raises, whatever the content, None
\* included.  It returns zero references for the empty document and for
\* None, and for a document without page markers that has no header line
\* either and at most 50 lines; in a document without page markers that has
\* a header line, the text after the first header line is the references
\* text, the references returned are made of its lines, and an entry that
\* is all of it is returned as a reference.
C20_NeverRaisesNoMarkerNoReferences ==
    analyze_pc \in {"analyzed", "reanalyzed"} =>
        /\ analysis.raised = "no"
        /\ text \in {<<"blank">>, NoContent} => analysis.references = <<>>
        /\ (NoMarker(text) /\ NoHeader(text) /\ Len(text) <= 50) =>
               analysis.references = <<>>
        /\ (NoMarker(text) /\ ~NoHeader(text)) =>
               /\ analysis.references_text =
                      OrBlank(pop_trailing(pop_leading(
                          SubSeq(text, FirstHeader(text) + 1, Len(text)))))
               /\ \A i \in 1..Len(analysis.references) :
                      \A j \in 1..Len(analysis.references[i]) :
                          \E k \in (FirstHeader(text) + 1)..Len(text) :
                              text[k] = analysis.references[i][j]
               /\ analysis.references_text = <<"entry">> =>
                      analysis.references = << <<"entry">> >>

\* A document without page markers, a header line and an entry, has been
\* analyzed: the entry is returned as a reference.
C20_Witness ==
    /\ analyze_pc = "analyzed"
    /\ text = <<"prose", "header", "entry">>
    /\ analysis.raised = "no"
    /\ analysis.references = << <<"entry">> >>

-----------------------------------------------------------------------------
(* Claims about one run over the references, checked under SpecRun.         *)

\* C21: in one run every reference is validated at most once, and the outcome
\* the report gives for a reference is the one the tab displayed for it.
C21_ValidatedOncePerRun ==
    /\ \A i \in 1..Len(validations) : validations[i] <= 1
    /\ run_pc = "done" => reported = displayed

-----------------------------------------------------------------------------
(* More claims about split_body_and_references, checked under SpecSplit.    *)

\* Line i of t (1-based) is the first line after a page marker.
FollowsMarker(t, i) == i > 1 /\ t[i - 1] = "marker"

\* t has page markers and header lines, none of them right after a marker.
HeaderOnlyInsidePages(t) ==
    /\ \E i \in 1..Len(t) : t[i] = "marker"
    /\ \E i \in 1..Len(t) : IsHeader(t[i])
    /\ \A i \in 1..Len(t) : IsHeader(t[i]) => ~FollowsMarker(t, i)

\* C22: in a text with page markers a header-like line that is not the first
\* line after a marker is never taken as the start of the references: the
\* text is split as the passes that look at no header split it.
C22_HeaderOnlyAfterMarker ==
    (split_pc = "split" /\ HeaderOnlyInsidePages(text)) =>
        [body_text |-> body_text, references_text |-> references_text] =
            split_after_first_pass(text,
                {ps \in last_three(page_starts(text)) : page_accepted(text, ps)})

-----------------------------------------------------------------------------
(* More claims about the segmentation, checked under SpecSegment.           *)

\* The line matches one of ref_start_patterns.
StartsReference(line) == line \in {"ref", "entry", "none"}

\* C23: every line that matches a reference-start pattern closes the
\* reference in progress and is the first line of a new one: the references
\* the loop builds hold every non-blank line in order, and none of them has
\* a reference-start line anywhere but as its first line.
C23_StartLineOnlyFirst ==
    segment_pc = "extracted" =>
        /\ Flatten(references) = SelectSeq(references_text, NotBlank)
        /\ \A k \in 1..Len(references) :
               \A j \in 2..Len(references[k]) : ~StartsReference(references[k][j])

\* A reference of two lines was in progress when a reference-start line
\* came: it is closed, and the line starts the next reference.
C23_Witness ==
    /\ segment_pc = "extracted"
    /\ references_text = <<"entry", "cont", "ref", "cont">>
    /\ references = << <<"entry", "cont">>, <<"ref", "cont">> >>

\* C24: a blank line does not end a reference: after a reference-start line,
\* a blank line and a continuation line, the continuation line belongs to the
\* reference the start line opened.
C24_BlankLineKeepsReference ==
    (/\ segment_pc = "extracted"
     /\ Len(references_text) = 3
     /\ StartsReference(references_text[1])
     /\ references_text[2] = "blank"
     /\ references_text[3] = "cont") =>
        references = << <<references_text[1], "cont">> >>

-----------------------------------------------------------------------------
(* Claims about the requests sent, checked under SpecSend.                  *)

\* C25: in an interval of reset_interval seconds the requests sent to a
\* domain (DOI GET, URL HEAD, URL GET retry) never exceed the max_requests
\* of the domain's bucket.
C25_RequestsWithinLimit ==
    \A domain \in Domains :
        requests_sent[domain].n <= RATE_LIMITS[BucketOf(domain)].max_requests

-----------------------------------------------------------------------------
(* Claims about the shared default bucket, checked under SpecShare.         *)

\* C26: the domains without a bucket of their own share the default bucket:
\* its count is the number of grants to all of them together in the window,
\* which never exceeds 50, and the counts of dl.acm.org and doi.org are the
\* grants to these two domains alone.
C26_DefaultBucketShared ==
    /\ grants["example.com"] + grants["other.org"] = RATE_LIMITS["default"].requests
    /\ grants["example.com"] + grants["other.org"] <= 50
    /\ grants["dl.acm.org"] = RATE_LIMITS["dl.acm.org"].requests
    /\ grants["doi.org"] = RATE_LIMITS["doi.org"].requests

\* 49 grants went to one unrecognized domain and one to another; the next
\* call, for either of them, was denied, while doi.org still has its own
\* count.
C26_Witness ==
    /\ grants["example.com"] = 49
    /\ grants["other.org"] = 1
    /\ ~ret
    /\ calls["default"] = 51
    /\ RATE_LIMITS["doi.org"].requests = 2
    /\ RATE_LIMITS["dl.acm.org"].requests = 0

-----------------------------------------------------------------------------
(* Claims about the format validation, checked under SpecExtract.           *)

\* C28: for the style "Chicago" the extraction leaves authors, year and
\* title empty whatever the reference holds, and validate_citation_format
\* returns is_valid = False with all three fields reported missing.
C28_ChicagoNeverValid ==
    (extract_pc = "validated" /\ style_given = "Chicago") =>
        /\ DOMAIN components # {}
        /\ components["authors"] = ""
        /\ components["year"] = ""
        /\ components["title"] = ""
        /\ validation.is_valid = FALSE
        /\ validation.errors = <<"Missing author information",
                                 "Missing publication year",
                                 "Missing title">>

\* A reference in which the searches for author, year and title all succeed
\* has been validated as Chicago: it is invalid, its three fields empty.
C28_Witness ==
    /\ extract_pc = "validated"
    /\ style_given = "Chicago"
    /\ matches.author = "author"
    /\ matches.year = "year"
    /\ matches.title = "title"
    /\ matches.author_year = "authors_year"
    /\ components["authors"] = ""
    /\ ~validation.is_valid

-----------------------------------------------------------------------------
(* The policy of the segmentation for a line that starts with no            *)
(* reference-start pattern, checked under SpecSegment.                      *)

\* One of the author and organisation patterns matches the line.
OrgHeuristic(line) == line = "org"

\* The line ends with '.' or '/'.
EndsWithPeriodOrSlash(line) == line \in {"entry", "none"}

\* The line begins with an uppercase letter and has more than 10 characters.
UpperAndLong(line) == line \in {"prose", "org", "proc"}

\* The positions, among the non-blank lines, at which the references rs
\* start, the first of them at offset + 1.
RECURSIVE StartPositions(_, _)
StartPositions(rs, offset) ==
    IF rs = <<>> THEN {}
    ELSE {offset + 1} \cup StartPositions(Tail(rs), offset + Len(Head(rs)))

\* Line i of the references text is the first line of a reference.
OpensReference(i) ==
    Cardinality({j \in 1..i : references_text[j] # "blank"})
        \in StartPositions(references, 0)

\* C27: a non-blank line without reference-start pattern that comes while a
\* reference is in progress opens a new reference if an author or
\* organisation pattern matches it, or if the line before it ends with '.'
\* or '/' and the line begins with an uppercase letter and is longer than 10
\* characters; otherwise it is appended.  A continuation indicator in the
\* line changes nothing about that.
C27_OnePolicy ==
    segment_pc = "extracted" =>
        \A i \in 2..Len(references_text) :
            (/\ references_text[i] # "blank"
             /\ ~StartsReference(references_text[i])
             /\ references_text[i - 1] # "blank") =>
                (OpensReference(i) <=>
                    \/ OrgHeuristic(references_text[i])
                    \/ /\ EndsWithPeriodOrSlash(references_text[i - 1])
                       /\ UpperAndLong(references_text[i]))

\* 'In Proceedings of the 5th Symposium' shows a continuation indicator, but
\* it follows a line that ends with a period: it opens a reference.  After
\* the line 'vol. 2, no. 4' it is appended.
C27_Witness ==
    /\ segment_pc = "extracted"
    /\ references_text = <<"entry", "proc", "cont", "proc">>
    /\ references = << <<"entry">>, <<"proc", "cont", "proc">> >>

-----------------------------------------------------------------------------
(* Claims about the session, checked under SpecSession.                     *)

\* C29: whatever was uploaded and clicked, the current content of the
\* session is the text of the file in the uploader or an edit submitted
\* while that file was there, and the results are the analysis of the
\* current content: nothing of an earlier file is carried over.
C29_SessionFollowsFile ==
    (uploaded_file # no_file /\ ~is_blank(uploaded_file.text)) =>
        /\ \/ session_state.current_content = uploaded_file.text
           \/ session_state.current_content \in edits
        /\ session_state.analysis_results =
               perform_reanalysis(session_state.current_content, no_analysis)

-----------------------------------------------------------------------------
(* More claims about the classification, checked under SpecClassify.        *)

\* len(patterns) of the registered styles.
PatternsOf(style) == IF style = "ACM" THEN 6 ELSE 3

\* C30: the confidence that is returned is at most 4 / (len(patterns) + 3)
\* of the winning style, 2/3 for APA, MLA, Chicago and IEEE and 4/9 for ACM;
\* it is below 0.8, and the label of a classified reference is never "High
\* confidence".
C30_NeverHighConfidence ==
    classify_pc \in {"detected", "formatted"} =>
        /\ best_match.style_name # "Unknown" =>
               /\ best_match.confidence[1] * (PatternsOf(best_match.style_name) + 3)
                      <= 4 * best_match.confidence[2]
               /\ best_match.style_name = "ACM" =>
                      best_match.confidence[1] * 9 <= 4 * best_match.confidence[2]
               /\ best_match.style_name # "ACM" =>
                      best_match.confidence[1] * 3 <= 2 * best_match.confidence[2]
        /\ best_match.confidence[1] * 5 < 4 * best_match.confidence[2]
        /\ classify_pc = "formatted" =>
               confidence_text \in {"Unknown Style", "Medium confidence", "Low confidence"}

\* A reference that scores all four points of a style of three patterns has
\* been classified and labelled: 4 of 6 is a medium confidence.
C30_Witness ==
    /\ classify_pc = "formatted"
    /\ best_match.confidence[1] * 3 = 2 * best_match.confidence[2]
    /\ confidence_text = "Medium confidence"

=============================================================================
